---------------------------- MODULE Spec2Model ----------------------------
(***************************************************************************)
(* The Aviator round engine of server/routes.ts: the round state machine,  *)
(* the tick callback with its auto cash-out scan, the crash sweep, and the *)
(* place-bet and cash-out handlers, over the tables of DatabaseStorage.    *)
(*                                                                         *)
(* Node runs one callback at a time; a handler gives up control only at an *)
(* await.  Every awaited storage call is therefore two steps: the database *)
(* executes the call (ret goes FALSE -> TRUE), and later the handler       *)
(* resumes with the result.  Arguments are evaluated when the call is      *)
(* issued, in the step that runs the code before the await.  Where the     *)
(* code between two awaits reads and writes only the handler's own locals  *)
(* (it commutes with every step of every other handler), the step that     *)
(* executes the first call also issues the second.                         *)
(*                                                                         *)
(* Suspended handlers of one kind are interchangeable, so each kind is a   *)
(* bag of handler states.  Multipliers are kept in hundredths (1.00 is     *)
(* 100).  The round's multiplier is a double that grows by repeated        *)
(* addition of the double 0.01: next to its value in hundredths the round  *)
(* keeps `drift`, the rounding error the additions have accumulated, in    *)
(* units of 2^-59 (the last bit of the double 0.01), so that comparisons   *)
(* and products are the ones IEEE 754 arithmetic yields.                   *)
(***************************************************************************)
EXTENDS Integers, Sequences, FiniteSets, Bags, TLC

\* ------------------------------------------------------------- bounds
Budget == 3           \* rounds started plus requests received over a run
MaxTicks == 1         \* tick callbacks that may be suspended at once
MaxDraw == 2          \* Math.random() is one of 0..MaxDraw (in 1/RandomGrid)
RandomGrid == 1799    \* Math.random() is k/RandomGrid, k in 0..RandomGrid-1
InitialBalance == 150 \* every user's balance when the server starts
MaxSockets == 2       \* WebSocket connections accepted over a run

\* ---------------------------------------------------- program constants
MinBet == 10
MaxBet == 1000
CrashBase == 101      \* 1.01
CrashSpan == 899      \* 8.99
Step == 1             \* 0.01
StepLow == 1147       \* the double 0.01 is n * 2^-59; StepLow is n mod 2^11
StepExcess == 12      \* 100 * n - 2^59: the double 0.01 exceeds 1/100
StartMultiplier == 100

Users == {"u1", "u2"}
Sockets == 1..MaxSockets
BetAmounts == {100}
\* The autoCashOut values user u sends (0: the request carries none): one
\* user's target is reached by the tick before the crash tick, the other's
\* only by the crash tick itself.
AutoCashOutsOf(u) == IF u = "u1" THEN {0, 101} ELSE {0, 102}
AutoCashOuts == UNION {AutoCashOutsOf(u) : u \in Users}

VARIABLES
  currentAviatorRound,  \* the module-level round record
  aviatorInterval,      \* handle of the interval last set (0: null)
  intervals,            \* handles of the intervals the runtime still fires
  bettingTimers,        \* roundIds whose 5 s timeout is pending
  cooldownTimers,       \* number of pending 3 s timeouts
  roundsStarted,        \* randomUUID(): the number of ids drawn so far
  clock,                \* new Date(): the number of timestamps drawn so far
  aviatorBets,          \* table aviator_bets, row i has id i
  balance,              \* users.balance
  transactions,         \* table transactions (a bag of rows)
  placeBetReq,          \* suspended place-bet handlers (a bag)
  cashOutReq,           \* suspended cash-out handlers (a bag)
  tick,                 \* suspended tick callbacks (a bag)
  crash,                \* crashAviator invocations: roundId -> handler state
  sent,                 \* messages sent to clients by the last step
  response,             \* HTTP response written by the last step
  called,               \* fire-and-forget storage call issued by the last step
  payouts,              \* per bet: game_win rows written and balance credits made
  budget,               \* what the environment may still do in this run
  wssClients,           \* wss.clients: the sockets the WebSocketServer tracks
  connectedClients,     \* the module-level Set of sockets
  readyState,           \* socket -> "none" (not yet created), "open",
                        \* "closing" (its 'close' event is pending), "closed"
  isAlive,              \* socket -> ws.isAlive
  pinged,               \* socket -> a ping is on its way and unanswered
  delivered,            \* socket -> messages sent on it by the last step
  page                  \* the AviatorGame page of one browser: its socket
                        \* (ws.current, 0 before it mounts) and whether its
                        \* join was written to the connection

vars == <<currentAviatorRound, aviatorInterval, intervals, bettingTimers,
          cooldownTimers, roundsStarted, clock, aviatorBets, balance,
          transactions, placeBetReq, cashOutReq, tick, crash, sent, response,
          called, payouts, budget, wssClients, connectedClients, readyState,
          isAlive, pinged, delivered, page>>

roundVars == <<currentAviatorRound, aviatorInterval, intervals, bettingTimers,
               cooldownTimers, roundsStarted, clock>>
dbVars == <<aviatorBets, balance, transactions, payouts>>
wsVars == <<wssClients, connectedClients, readyState, isAlive, pinged, page>>

\* ------------------------------------------------------------ helpers
Floor(num, den) == num \div den

Min(S) == CHOOSE x \in S : \A y \in S : x <= y

Put(B, e) == B (+) SetToBag({e})
Swap(B, old, new) == (B (-) SetToBag({old})) (+) SetToBag({new})
Drop(B, e) == B (-) SetToBag({e})

\* Number.prototype.toFixed(2) of num/den, in hundredths: the integer
\* nearest to 100*num/den (the larger one on a tie; with RandomGrid = 1799
\* no draw is a tie).
ToFixed2(num, den) == (2 * 100 * num + den) \div (2 * den)

\* The draw with 1.00 for 1.01 as the least crash point.
RawCrashPointFromOne(k) == StartMultiplier * RandomGrid + CrashSpan * k

\* 1.01 + Math.random() * 8.99 for Math.random() = k/RandomGrid, as the
\* fraction RawCrashPoint(k) / (100 * RandomGrid).
RawCrashPoint(k) == CrashBase * RandomGrid + CrashSpan * k

\* parseFloat(crashPoint.toFixed(2)), in hundredths.
CrashPointOf(k) == ToFixed2(RawCrashPoint(k), 100 * RandomGrid)

\* floor(betAmount * multiplier) of decimal arithmetic.
WinAmount(betAmount, multiplier) == Floor(betAmount * multiplier, 100)

\* ------------------------------------------- the multiplier as a double
\* A double is written as hundredths n and an excess x: its value is
\* n/100 + x * 2^-59 / 100, with x far below one hundredth.

\* Is the double (n, x) at least the decimal c/100?
AtOrAbove(n, x, c) == n > c \/ (n = c /\ x >= 0)

\* The binary exponent of the double (n, x), which is in [1, 16).
Binade(n, x) ==
  IF AtOrAbove(n, x, 800) THEN 3
  ELSE IF AtOrAbove(n, x, 400) THEN 2
  ELSE IF AtOrAbove(n, x, 200) THEN 1
  ELSE 0

\* The spacing of the doubles of binary exponent e, in units of 2^-59.
Grain(e) == 2 ^ (e + 7)

\* Round to nearest, ties to even: what is added to a value that is v
\* modulo 2 * grain to reach a multiple of grain.
RoundingOf(v, grain) ==
  LET r == v % grain
  IN IF 2 * r < grain THEN 0 - r
     ELSE IF 2 * r > grain THEN grain - r
     ELSE IF v < grain THEN 0 - r ELSE grain - r

\* The excess of the round's multiplier: after k additions the double is
\* (2^59 + k * n + drift) * 2^-59 with n * 2^-59 the double 0.01, and
\* 2^59 / 100 = n - StepExcess / 100.
ExcessOf(round) ==
  100 * round.drift + StepExcess * (round.multiplier - StartMultiplier)

\* multiplier += 0.01: the drift after the addition.  The exact sum is
\* rounded to the spacing of its binary exponent.
DriftAfterStep(round) ==
  LET k == round.multiplier + Step - StartMultiplier
      grain == Grain(Binade(round.multiplier + Step,
                            100 * round.drift + StepExcess * k))
  IN round.drift + RoundingOf((k * StepLow + round.drift) % (2 * grain), grain)

\* parseFloat of the decimal c/100: the excess of the nearest double.
NearestExcess(c) ==
  LET grain == Grain(Binade(c, 0))
      t == 100 * ((c * StepLow) % (2 * grain)) - StepExcess * c
      r == t % (100 * grain)
      even == ((t - r) \div (100 * grain)) % 2 = 0
  IN IF 2 * r < 100 * grain THEN 0 - r
     ELSE IF 2 * r > 100 * grain THEN 100 * grain - r
     ELSE IF even THEN 0 - r ELSE 100 * grain - r

\* currentAviatorRound.multiplier >= c, for c the double nearest to the
\* decimal c/100.
MultiplierAtLeast(round, c) ==
  \/ round.multiplier > c
  \/ round.multiplier = c /\ ExcessOf(round) >= NearestExcess(c)

\* The binary exponent of the integer i >= 1.
Log2(i) == CHOOSE j \in 0..30 : 2 ^ j <= i /\ i < 2 ^ (j + 1)

\* Math.floor(bet.betAmount * currentAviatorRound.multiplier): the product
\* is rounded to a double first.  When betAmount * n / 100 is not an
\* integer, or the excess is not negative, the floor is the decimal one;
\* otherwise the product is just below an integer i and rounds up to it
\* exactly when it is within half the spacing of the doubles below i.
FloorOfProduct(betAmount, round) ==
  LET p == betAmount * round.multiplier
      i == p \div 100
      x == ExcessOf(round)
      half == IF i = 2 ^ Log2(i) THEN 2 ^ (Log2(i) + 5) ELSE 2 ^ (Log2(i) + 6)
  IN IF p % 100 # 0 \/ x >= 0 THEN i
     ELSE IF 0 - x <= (100 * half) \div betAmount THEN i
     ELSE i - 1

NoCall == [op |-> "none"]
NoResponse == [status |-> 0]

\* The objects handed to broadcastToClients, ws.send and res.json.
RoundStartedMsg(roundId) ==
  [type |-> "round_started", roundId |-> roundId, status |-> "betting"]
FlyingStartedMsg(round) ==
  [type |-> "flying_started", roundId |-> round.roundId,
   startTime |-> round.startTime]
MultiplierUpdateMsg(round) ==
  [type |-> "multiplier_update", multiplier |-> round.multiplier]
CrashedMsg(finalMultiplier, round) ==
  [type |-> "crashed", multiplier |-> finalMultiplier,
   crashPoint |-> round.crashPoint]
BetPlacedMsg(userId, betAmount, autoCashOut) ==
  [type |-> "bet_placed", userId |-> userId, betAmount |-> betAmount,
   autoCashOut |-> autoCashOut]
CashOutMsg(userId, round, winAmount) ==
  [type |-> "cash_out", userId |-> userId, multiplier |-> round.multiplier,
   winAmount |-> winAmount]
AutoCashOutMsg(userId, round, winAmount) ==
  [type |-> "auto_cash_out", userId |-> userId,
   multiplier |-> round.multiplier, winAmount |-> winAmount]
\* The snapshot with every field of the round object.
GameStateMsgWholeRound(round) ==
  [type |-> "game_state", roundId |-> round.roundId, status |-> round.status,
   multiplier |-> round.multiplier, startTime |-> round.startTime,
   crashPoint |-> round.crashPoint]

\* The snapshot with the multiplier a round starts with.
GameStateMsgAtStart(round) ==
  [type |-> "game_state", roundId |-> round.roundId, status |-> round.status,
   multiplier |-> StartMultiplier, startTime |-> round.startTime]

GameStateMsg(round) ==
  [type |-> "game_state", roundId |-> round.roundId, status |-> round.status,
   multiplier |-> round.multiplier, startTime |-> round.startTime]
CurrentGameResponse(round) ==
  [status |-> 200, roundId |-> round.roundId, gameStatus |-> round.status,
   multiplier |-> round.multiplier, startTime |-> round.startTime]
BadRequest(message) == [status |-> 400, message |-> message]

\* ------------------------------------------------ broadcastToClients
\* Nothing is sent on any socket.
NoDelivery == [s \in Sockets |-> <<>>]

\* The loop sends to every member of connectedClients, open or not.
BroadcastTargetsAll == connectedClients

\* The loop sends to the least open member of connectedClients only.
BroadcastTargetsFirst ==
  {s \in connectedClients :
     /\ readyState[s] = "open"
     /\ \A o \in connectedClients : readyState[o] = "open" => s <= o}

\* connectedClients.forEach: if (client.readyState === WebSocket.OPEN)
BroadcastTargets == {s \in connectedClients : readyState[s] = "open"}

\* The step hands the messages of sent' to broadcastToClients, in order.
BroadcastToClients ==
  /\ delivered' = [s \in Sockets |->
                     IF s \in BroadcastTargets THEN sent' ELSE <<>>]
  /\ UNCHANGED wsVars

\* No page has mounted.
NoPage == [socket |-> 0, joined |-> FALSE]

\* One observer has connected since the server was started: its socket is
\* open and in both sets; the other sockets do not exist yet.
ObserverConnected ==
  /\ wssClients = {1}
  /\ connectedClients = {1}
  /\ readyState = [s \in Sockets |-> IF s = 1 THEN "open" ELSE "none"]
  /\ isAlive = [s \in Sockets |-> TRUE]
  /\ pinged = [s \in Sockets |-> FALSE]
  /\ delivered = NoDelivery
  /\ page = NoPage

\* ------------------------------------------------- DatabaseStorage
\* getUserAviatorBet: the rows matching (userId, roundId); the handler takes
\* the first row the database returns, which is any of them.
UserAviatorBets(userId, roundId) ==
  {i \in DOMAIN aviatorBets :
     aviatorBets[i].userId = userId /\ aviatorBets[i].roundId = roundId}

\* createAviatorBet: the inserted row with the column defaults.
NewAviatorBet(userId, roundId, betAmount, autoCashOut) ==
  [id |-> Len(aviatorBets) + 1, userId |-> userId, roundId |-> roundId,
   betAmount |-> betAmount, autoCashOut |-> autoCashOut, cashOutAt |-> 0,
   status |-> "active", winAmount |-> 0]

\* updateAviatorBet(id, updates): the columns named in updates are set.
UpdateAviatorBet(id, updates) ==
  [aviatorBets EXCEPT ![id] =
     [f \in DOMAIN @ |-> IF f \in DOMAIN updates THEN updates[f] ELSE @[f]]]

\* getAviatorBetsForRound: the ids of the rows of the round.
AviatorBetsForRound(roundId) ==
  {i \in DOMAIN aviatorBets : aviatorBets[i].roundId = roundId}

\* The orders in which a result set of rows S can come back.
RowOrders(S) ==
  {q \in [1..Cardinality(S) -> S] : \A i, j \in DOMAIN q : i # j => q[i] # q[j]}

\* createTransaction(row)
CreateTransaction(row) == transactions (+) SetToBag({row})

GameBetTx(userId, betAmount, roundId) ==
  [userId |-> userId, type |-> "game_bet", amount |-> 0 - betAmount,
   gameType |-> "aviator", gameRoundId |-> roundId]
GameWinTx(userId, winAmount, roundId) ==
  [userId |-> userId, type |-> "game_win", amount |-> winAmount,
   gameType |-> "aviator", gameRoundId |-> roundId]

\* The columns both cash-out paths write with updateAviatorBet.
CashedOutUpdate(cashOutAt, winAmount) ==
  [cashOutAt |-> cashOutAt, status |-> "cashed_out", winAmount |-> winAmount]

\* The columns the crash sweep writes with updateAviatorBet.
CrashedUpdate == [status |-> "crashed"]

\* ------------------------------------------------------ handler states
NewTick(roundId) ==
  [pc |-> "getAviatorBetsForRound", ret |-> FALSE, roundId |-> roundId,
   roundBets |-> <<>>, idx |-> 0, cashOutAt |-> 0, winAmount |-> 0,
   amount |-> 0]
IdleCrash ==
  [pc |-> "idle", ret |-> FALSE, roundId |-> 0, roundBets |-> <<>>, idx |-> 0,
   finalMultiplier |-> 0]
NewPlaceBet(userId, betAmount, autoCashOut) ==
  [pc |-> "getUser", ret |-> FALSE, userId |-> userId,
   betAmount |-> betAmount, autoCashOut |-> autoCashOut, roundId |-> 0,
   user |-> 0, existingBet |-> 0, bet |-> 0, newBalance |-> 0]
NewCashOut(userId, roundId) ==
  [pc |-> "getUserAviatorBet", ret |-> FALSE, userId |-> userId,
   roundId |-> roundId, bet |-> 0, betAmount |-> 0, betStatus |-> "",
   cashOutAt |-> 0, winAmount |-> 0, amount |-> 0]

Resumes(h, pc) == h.pc = pc /\ h.ret
Awaits(h, pc) == h.pc = pc /\ ~h.ret

\* What a run may hold: rounds started (at least one) and requests received.
Budgets ==
  {b \in [rounds : 1..Budget, placeBet : 0..Budget, cashOut : 0..Budget,
          query : 0..Budget, fault : {0}] :
     b.rounds + b.placeBet + b.cashOut + b.query = Budget}

\* The round object with 1.01 as the first multiplier.
NewRoundAboveStart(roundId, k) ==
  [roundId |-> roundId, status |-> "betting",
   multiplier |-> StartMultiplier + Step, drift |-> 0,
   crashPoint |-> CrashPointOf(k), startTime |-> 0]

\* The round object with a constant in place of randomUUID().
NewRoundSameId(roundId, k) ==
  [roundId |-> 1, status |-> "betting", multiplier |-> StartMultiplier,
   drift |-> 0, crashPoint |-> CrashPointOf(k), startTime |-> 0]

\* The round object with a startTime from its second round on.
NewRoundStampedAtStart(roundId, k) ==
  [roundId |-> roundId, status |-> "betting", multiplier |-> StartMultiplier,
   drift |-> 0, crashPoint |-> CrashPointOf(k), startTime |-> roundId - 1]

\* The round object startAviatorRound assigns to currentAviatorRound.
NewRound(roundId, k) ==
  [roundId |-> roundId, status |-> "betting", multiplier |-> StartMultiplier,
   drift |-> 0, crashPoint |-> CrashPointOf(k), startTime |-> 0]

\* The row startAviatorRound passes to storage.createAviatorGameState.
CreateGameStateCall(roundId, k) ==
  [op |-> "createAviatorGameState", roundId |-> roundId, status |-> "betting",
   multiplier |-> StartMultiplier, crashPoint |-> RawCrashPoint(k)]

\* registerRoutes has returned: the first round was started, with draw k,
\* in a run that may hold b.
Started(k, b) ==
    /\ currentAviatorRound = NewRound(1, k)
    /\ called = CreateGameStateCall(1, k)
    /\ sent = <<RoundStartedMsg(1)>>
    /\ response = NoResponse
    /\ aviatorInterval = 0
    /\ intervals = {}
    /\ bettingTimers = {1}
    /\ cooldownTimers = 0
    /\ roundsStarted = 1
    /\ clock = 0
    /\ aviatorBets = <<>>
    /\ balance = [u \in Users |-> InitialBalance]
    /\ transactions = EmptyBag
    /\ payouts = <<>>
    /\ placeBetReq = EmptyBag
    /\ cashOutReq = EmptyBag
    /\ tick = EmptyBag
    /\ crash = [r \in 1..Budget |-> IdleCrash]
    /\ budget = [b EXCEPT !.rounds = @ - 1]
    /\ ObserverConnected

Init == \E k \in 0..MaxDraw, b \in Budgets : Started(k, b)

\* ------------------------------------------------------- round engine
\* The 3 s timeout set by crashAviator fires: startAviatorRound().
StartAviatorRound ==
  /\ cooldownTimers > 0
  /\ budget.rounds > 0
  /\ budget' = [budget EXCEPT !.rounds = @ - 1]
  /\ \E k \in 0..MaxDraw :
       /\ currentAviatorRound' = NewRound(roundsStarted + 1, k)
       /\ called' = CreateGameStateCall(roundsStarted + 1, k)
  /\ cooldownTimers' = cooldownTimers - 1
  /\ roundsStarted' = roundsStarted + 1
  /\ sent' = <<RoundStartedMsg(roundsStarted + 1)>>
  /\ bettingTimers' = bettingTimers \cup {roundsStarted + 1}
  /\ response' = NoResponse
  /\ UNCHANGED <<aviatorInterval, intervals, clock, dbVars, placeBetReq,
                 cashOutReq, tick, crash>>
  /\ BroadcastToClients

\* The guard with the comparison inverted.
BettingTimerGuardOtherRound(r) == currentAviatorRound.roundId # r

\* The guard of the 5 s timeout set by startAviatorRound for round r.
BettingTimerGuard(r) == currentAviatorRound.roundId = r

\* The 5 s timeout of round r fires; startFlying() when r is still current.
BettingTimer(r) ==
  /\ r \in bettingTimers
  /\ bettingTimers' = bettingTimers \ {r}
  /\ response' = NoResponse
  /\ IF BettingTimerGuard(r)
       THEN /\ currentAviatorRound' =
                 [currentAviatorRound EXCEPT !.status = "flying",
                                             !.startTime = clock + 1]
            /\ clock' = clock + 1
            /\ called' = [op |-> "updateAviatorGameState",
                          roundId |-> currentAviatorRound.roundId,
                          status |-> "flying", startTime |-> clock + 1]
            /\ sent' = <<FlyingStartedMsg(currentAviatorRound')>>
            /\ aviatorInterval' = currentAviatorRound.roundId
            /\ intervals' = intervals \cup {currentAviatorRound.roundId}
       ELSE /\ called' = NoCall
            /\ sent' = <<>>
            /\ UNCHANGED <<currentAviatorRound, clock, aviatorInterval,
                           intervals>>
  /\ UNCHANGED <<cooldownTimers, roundsStarted, dbVars, placeBetReq,
                 cashOutReq, tick, crash, budget>>
  /\ BroadcastToClients

\* The first statement of the tick callback: does it go on?
TickGuard == currentAviatorRound.status = "flying"

\* The crash test of the tick callback, on the incremented multiplier.
CrashReached(round) == MultiplierAtLeast(round, round.crashPoint)

\* currentAviatorRound.multiplier += 0.01
Incremented(round) ==
  [round EXCEPT !.multiplier = @ + Step, !.drift = DriftAfterStep(round)]

\* clearInterval that leaves the interval running.
ClearIntervalKeeps(interval) == intervals

\* clearInterval(interval): the intervals that go on firing.
ClearInterval(interval) == intervals \ {interval}

\* Interval h fires: the tick callback up to its first await, which is the
\* await in crashAviator when the crash point is reached.
Tick(h) ==
  /\ h \in intervals
  /\ response' = NoResponse
  /\ sent' = <<>>
  /\ called' = NoCall
  /\ IF ~TickGuard
       THEN /\ intervals' = ClearInterval(aviatorInterval)
            /\ UNCHANGED <<currentAviatorRound, aviatorInterval, tick, crash,
                           clock>>
       ELSE IF CrashReached(Incremented(currentAviatorRound))
       THEN \* crashAviator() up to its first await, which is
            \* storage.updateAviatorGameState(roundId, {status, multiplier,
            \* crashTime: new Date()})
            /\ intervals' = ClearInterval(aviatorInterval)
            /\ aviatorInterval' = 0
            /\ currentAviatorRound' =
                 [Incremented(currentAviatorRound) EXCEPT !.status = "crashed"]
            /\ clock' = clock + 1
            /\ crash' = [crash EXCEPT ![currentAviatorRound.roundId] =
                 [IdleCrash EXCEPT
                    !.pc = "updateAviatorGameState",
                    !.finalMultiplier = currentAviatorRound.multiplier + Step]]
            /\ UNCHANGED tick
       ELSE \* await storage.getAviatorBetsForRound(roundId)
            /\ BagCardinality(tick) < MaxTicks
            /\ currentAviatorRound' = Incremented(currentAviatorRound)
            /\ tick' = Put(tick, NewTick(currentAviatorRound.roundId))
            /\ UNCHANGED <<aviatorInterval, intervals, crash, clock>>
  /\ UNCHANGED <<bettingTimers, cooldownTimers, roundsStarted, dbVars,
                 placeBetReq, cashOutReq, budget>>
  /\ BroadcastToClients

\* -------------------------------------------- tick: auto cash-out scan
\* The test of the scan on a row of its result set, against the round as
\* it is when the test runs.
AutoCashOutDue(bet, round) ==
  /\ bet.status = "active"
  /\ bet.autoCashOut # 0
  /\ MultiplierAtLeast(round, bet.autoCashOut)

\* The for loop of the scan of callback t from row `from` on, after `out`
\* was broadcast: up to the next awaited updateAviatorBet, or to the end of
\* the callback.
TickScanFrom(t, from, out) ==
  LET due == {i \in DOMAIN t.roundBets :
                i >= from /\ AutoCashOutDue(t.roundBets[i], currentAviatorRound)}
  IN IF due = {}
       THEN /\ sent' = out \o <<MultiplierUpdateMsg(currentAviatorRound)>>
            /\ tick' = Drop(tick, t)
       ELSE /\ sent' = out
            /\ tick' = Swap(tick, t,
                 [t EXCEPT !.pc = "updateAviatorBet", !.ret = FALSE,
                           !.idx = Min(due),
                           !.cashOutAt = currentAviatorRound.multiplier,
                           !.winAmount =
                              FloorOfProduct(t.roundBets[Min(due)].betAmount,
                                             currentAviatorRound),
                           !.amount = 0])

\* The row a suspended scan is settling.
TickBet(t) == t.roundBets[t.idx]

\* The database executes the storage call tick callback t awaits.
TickStorage(t) ==
  /\ t \in BagToSet(tick)
  /\ ~t.ret
  /\ \/ /\ t.pc = "getAviatorBetsForRound"
        /\ \E q \in RowOrders(AviatorBetsForRound(t.roundId)) :
             tick' = Swap(tick, t,
               [t EXCEPT !.ret = TRUE,
                         !.roundBets = [i \in DOMAIN q |-> aviatorBets[q[i]]]])
        /\ UNCHANGED dbVars
     \/ /\ t.pc = "updateAviatorBet"
        /\ aviatorBets' = UpdateAviatorBet(TickBet(t).id,
                            CashedOutUpdate(t.cashOutAt, t.winAmount))
        /\ tick' = Swap(tick, t, [t EXCEPT !.ret = TRUE])
        /\ UNCHANGED <<balance, transactions, payouts>>
     \/ /\ t.pc = "createTransaction"
        /\ transactions' = CreateTransaction(
             GameWinTx(TickBet(t).userId, t.winAmount, t.roundId))
        /\ payouts' = [payouts EXCEPT ![TickBet(t).id].winTx = @ + 1]
        \* then: const user = await storage.getUser(bet.userId)
        /\ tick' = Swap(tick, t, [t EXCEPT !.pc = "getUser"])
        /\ UNCHANGED <<aviatorBets, balance>>
     \/ /\ t.pc = "getUser"
        \* then: await storage.updateUserBalance(bet.userId,
        \*         (user.balance || 0) + winAmount)
        /\ tick' = Swap(tick, t,
             [t EXCEPT !.pc = "updateUserBalance",
                       !.amount = balance[TickBet(t).userId] + t.winAmount])
        /\ UNCHANGED dbVars
     \/ /\ t.pc = "updateUserBalance"
        /\ balance' = [balance EXCEPT ![TickBet(t).userId] = t.amount]
        /\ payouts' = [payouts EXCEPT ![TickBet(t).id].credit = @ + 1]
        \* then: await storage.updateUserStats(bet.userId, true, winAmount);
        \* the statistics columns are not modelled, the call only suspends
        /\ tick' = Swap(tick, t,
             [t EXCEPT !.pc = "updateUserStats", !.ret = TRUE])
        /\ UNCHANGED <<aviatorBets, transactions>>
  /\ sent' = <<>>
  /\ response' = NoResponse
  /\ called' = NoCall
  /\ UNCHANGED <<roundVars, placeBetReq, cashOutReq, crash, budget>>
  /\ BroadcastToClients

\* What every resumed segment of a tick callback leaves alone.
TickFrame ==
  /\ response' = NoResponse
  /\ called' = NoCall
  /\ UNCHANGED <<roundVars, dbVars, placeBetReq, cashOutReq, crash, budget>>
  /\ BroadcastToClients

\* for (const bet of roundBets) ... from the first row.
TickAfterGetBets(t) ==
  /\ t \in BagToSet(tick)
  /\ Resumes(t, "getAviatorBetsForRound")
  /\ TickScanFrom(t, 1, <<>>)
  /\ TickFrame

\* await storage.createTransaction({... gameRoundId: currentAviatorRound.roundId})
TickAfterUpdateBet(t) ==
  /\ t \in BagToSet(tick)
  /\ Resumes(t, "updateAviatorBet")
  /\ tick' = Swap(tick, t,
       [t EXCEPT !.pc = "createTransaction", !.ret = FALSE,
                 !.roundId = currentAviatorRound.roundId])
  /\ sent' = <<>>
  /\ TickFrame

\* broadcast auto_cash_out, then the loop goes on with the next row.
TickAfterUpdateStats(t) ==
  /\ t \in BagToSet(tick)
  /\ Resumes(t, "updateUserStats")
  /\ TickScanFrom(t, t.idx + 1,
       <<AutoCashOutMsg(TickBet(t).userId, currentAviatorRound, t.winAmount)>>)
  /\ TickFrame

\* ------------------------------------------------------- crashAviator
\* The sweep that ends by setting the 3 s timeout twice.
CrashSweepFromTwoTimeouts(r, from) ==
  LET c == crash[r]
      active == {i \in DOMAIN c.roundBets :
                   i >= from /\ c.roundBets[i].status = "active"}
  IN IF active = {}
       THEN /\ sent' = <<CrashedMsg(c.finalMultiplier, currentAviatorRound)>>
            /\ cooldownTimers' = cooldownTimers + 2
            /\ crash' = [crash EXCEPT ![r] = [IdleCrash EXCEPT !.pc = "done"]]
       ELSE /\ sent' = <<>>
            /\ crash' = [crash EXCEPT ![r].pc = "updateAviatorBet",
                                      ![r].ret = FALSE, ![r].idx = Min(active)]
            /\ UNCHANGED cooldownTimers

\* The sweep of round r's crash from row `from` on: up to the next awaited
\* updateAviatorBet, or to the crashed broadcast and the 3 s timeout.
CrashSweepFrom(r, from) ==
  LET c == crash[r]
      active == {i \in DOMAIN c.roundBets :
                   i >= from /\ c.roundBets[i].status = "active"}
  IN IF active = {}
       THEN /\ sent' = <<CrashedMsg(c.finalMultiplier, currentAviatorRound)>>
            /\ cooldownTimers' = cooldownTimers + 1
            /\ crash' = [crash EXCEPT ![r] = [IdleCrash EXCEPT !.pc = "done"]]
       ELSE /\ sent' = <<>>
            /\ crash' = [crash EXCEPT ![r].pc = "updateAviatorBet",
                                      ![r].ret = FALSE, ![r].idx = Min(active)]
            /\ UNCHANGED cooldownTimers

CrashFrame ==
  /\ response' = NoResponse
  /\ called' = NoCall
  /\ UNCHANGED <<currentAviatorRound, aviatorInterval, intervals, bettingTimers,
                 roundsStarted, clock, dbVars, placeBetReq, cashOutReq, tick,
                 budget>>
  /\ BroadcastToClients

\* await storage.updateAviatorGameState(...) returns (the table is write-only
\* and not modelled); await storage.getAviatorBetsForRound(roundId) is issued.
CrashAfterUpdateGameState(r) ==
  /\ crash[r].pc = "updateAviatorGameState"
  /\ crash' = [crash EXCEPT ![r].pc = "getAviatorBetsForRound",
                            ![r].ret = FALSE,
                            ![r].roundId = currentAviatorRound.roundId]
  /\ sent' = <<>>
  /\ UNCHANGED cooldownTimers
  /\ CrashFrame

\* The database executes the storage call crashAviator awaits.
CrashStorage(r) ==
  /\ ~crash[r].ret
  /\ \/ /\ crash[r].pc = "getAviatorBetsForRound"
        /\ \E q \in RowOrders(AviatorBetsForRound(crash[r].roundId)) :
             crash' = [crash EXCEPT ![r].ret = TRUE,
                         ![r].roundBets = [i \in DOMAIN q |-> aviatorBets[q[i]]]]
        /\ UNCHANGED aviatorBets
     \/ /\ crash[r].pc = "updateAviatorBet"
        /\ aviatorBets' = UpdateAviatorBet(crash[r].roundBets[crash[r].idx].id,
                                           CrashedUpdate)
        \* then: await storage.updateUserStats(bet.userId, false)
        /\ crash' = [crash EXCEPT ![r].pc = "updateUserStats", ![r].ret = TRUE]
  /\ sent' = <<>>
  /\ response' = NoResponse
  /\ called' = NoCall
  /\ UNCHANGED <<roundVars, balance, transactions, payouts, placeBetReq,
                 cashOutReq, tick, budget>>
  /\ BroadcastToClients

\* for (const bet of roundBets) ... from the first row.
CrashAfterGetBets(r) ==
  /\ Resumes(crash[r], "getAviatorBetsForRound")
  /\ CrashSweepFrom(r, 1)
  /\ CrashFrame

\* The loop goes on with the next row.
CrashAfterUpdateStats(r) ==
  /\ Resumes(crash[r], "updateUserStats")
  /\ CrashSweepFrom(r, crash[r].idx + 1)
  /\ CrashFrame

\* ------------------------------------------ POST /api/aviator/place-bet
RequestFrame ==
  /\ called' = NoCall
  /\ UNCHANGED <<roundVars, dbVars, tick, crash>>
  /\ BroadcastToClients

\* The first test of the handler: is there a round taking bets?
PlaceBetGuard == currentAviatorRound.status = "betting"

\* The test with the lower limit only.
InvalidAmountBelowOnly(betAmount) == betAmount < MinBet

\* if (betAmount < 10 || betAmount > 1000)
InvalidAmount(betAmount) == betAmount < MinBet \/ betAmount > MaxBet

\* A place-bet request of userId arrives: the handler up to its first await.
PlaceBet(userId, betAmount, autoCashOut) ==
  /\ budget.placeBet > 0
  /\ budget' = [budget EXCEPT !.placeBet = @ - 1]
  /\ IF ~PlaceBetGuard
       THEN /\ response' = BadRequest("No active betting round")
            /\ UNCHANGED placeBetReq
       ELSE IF InvalidAmount(betAmount)
       THEN /\ response' = BadRequest("Invalid bet amount")
            /\ UNCHANGED placeBetReq
       ELSE \* await storage.getUser(userId)
            /\ response' = NoResponse
            /\ placeBetReq' =
                 Put(placeBetReq, NewPlaceBet(userId, betAmount, autoCashOut))
  /\ sent' = <<>>
  /\ UNCHANGED cashOutReq
  /\ RequestFrame

\* The database executes the storage call place-bet handler p awaits.
PlaceBetStorage(p) ==
  /\ p \in BagToSet(placeBetReq)
  /\ ~p.ret
  /\ \/ /\ p.pc = "getUser"
        /\ placeBetReq' = Swap(placeBetReq, p,
             [p EXCEPT !.ret = TRUE, !.user = balance[p.userId]])
        /\ UNCHANGED dbVars
     \/ /\ p.pc = "getUserAviatorBet"
        /\ \E b \in IF UserAviatorBets(p.userId, p.roundId) = {}
                      THEN {0} ELSE UserAviatorBets(p.userId, p.roundId) :
             placeBetReq' = Swap(placeBetReq, p,
               [p EXCEPT !.ret = TRUE, !.existingBet = b])
        /\ UNCHANGED dbVars
     \/ /\ p.pc = "createAviatorBet"
        /\ aviatorBets' = Append(aviatorBets,
             NewAviatorBet(p.userId, p.roundId, p.betAmount, p.autoCashOut))
        /\ payouts' = Append(payouts, [winTx |-> 0, credit |-> 0])
        /\ placeBetReq' = Swap(placeBetReq, p,
             [p EXCEPT !.ret = TRUE, !.bet = Len(aviatorBets) + 1])
        /\ UNCHANGED <<balance, transactions>>
     \/ /\ p.pc = "createTransaction"
        /\ transactions' =
             CreateTransaction(GameBetTx(p.userId, p.betAmount, p.roundId))
        \* then: const newBalance = (user.balance || 0) - betAmount;
        \*       await storage.updateUserBalance(userId, newBalance)
        /\ placeBetReq' = Swap(placeBetReq, p,
             [p EXCEPT !.pc = "updateUserBalance",
                       !.newBalance = p.user - p.betAmount])
        /\ UNCHANGED <<aviatorBets, balance, payouts>>
     \/ /\ p.pc = "updateUserBalance"
        /\ balance' = [balance EXCEPT ![p.userId] = p.newBalance]
        /\ placeBetReq' = Swap(placeBetReq, p, [p EXCEPT !.ret = TRUE])
        /\ UNCHANGED <<aviatorBets, transactions, payouts>>
  /\ sent' = <<>>
  /\ response' = NoResponse
  /\ called' = NoCall
  /\ UNCHANGED <<roundVars, cashOutReq, tick, crash, budget>>
  /\ BroadcastToClients

\* The balance test that lets every stake through.
InsufficientBalanceNever(user, betAmount) == FALSE

\* if (!user || (user.balance || 0) < betAmount)
InsufficientBalance(user, betAmount) == user < betAmount

\* The balance test; then
\* await storage.getUserAviatorBet(userId, currentAviatorRound.roundId)
PlaceBetAfterGetUser(p) ==
  /\ p \in BagToSet(placeBetReq)
  /\ Resumes(p, "getUser")
  /\ IF InsufficientBalance(p.user, p.betAmount)
       THEN /\ response' = BadRequest("Insufficient balance")
            /\ placeBetReq' = Drop(placeBetReq, p)
       ELSE /\ response' = NoResponse
            /\ placeBetReq' = Swap(placeBetReq, p,
                 [p EXCEPT !.pc = "getUserAviatorBet", !.ret = FALSE,
                           !.roundId = currentAviatorRound.roundId])
  /\ sent' = <<>>
  /\ UNCHANGED <<cashOutReq, budget>>
  /\ RequestFrame

\* The test on the row getUserAviatorBet returned.
DuplicateBetGuard(existingBet) == existingBet # 0

\* if (existingBet) ...; then await storage.createAviatorBet({userId,
\* roundId: currentAviatorRound.roundId, betAmount, autoCashOut})
PlaceBetAfterGetBet(p) ==
  /\ p \in BagToSet(placeBetReq)
  /\ Resumes(p, "getUserAviatorBet")
  /\ IF DuplicateBetGuard(p.existingBet)
       THEN /\ response' = BadRequest("Already placed bet in this round")
            /\ placeBetReq' = Drop(placeBetReq, p)
       ELSE /\ response' = NoResponse
            /\ placeBetReq' = Swap(placeBetReq, p,
                 [p EXCEPT !.pc = "createAviatorBet", !.ret = FALSE,
                           !.roundId = currentAviatorRound.roundId])
  /\ sent' = <<>>
  /\ UNCHANGED <<cashOutReq, budget>>
  /\ RequestFrame

\* await storage.createTransaction({... gameRoundId: currentAviatorRound.roundId})
PlaceBetAfterCreateBet(p) ==
  /\ p \in BagToSet(placeBetReq)
  /\ Resumes(p, "createAviatorBet")
  /\ placeBetReq' = Swap(placeBetReq, p,
       [p EXCEPT !.pc = "createTransaction", !.ret = FALSE,
                 !.roundId = currentAviatorRound.roundId])
  /\ response' = NoResponse
  /\ sent' = <<>>
  /\ UNCHANGED <<cashOutReq, budget>>
  /\ RequestFrame

\* broadcast bet_placed; res.json({ success: true, bet, newBalance })
PlaceBetAfterUpdateBalance(p) ==
  /\ p \in BagToSet(placeBetReq)
  /\ Resumes(p, "updateUserBalance")
  /\ sent' = <<BetPlacedMsg(p.userId, p.betAmount, p.autoCashOut)>>
  /\ response' = [status |-> 200, bet |-> p.bet, newBalance |-> p.newBalance]
  /\ placeBetReq' = Drop(placeBetReq, p)
  /\ UNCHANGED <<cashOutReq, budget>>
  /\ RequestFrame

\* ------------------------------------------- POST /api/aviator/cash-out
\* The test as "the betting phase is over".
CashOutGuardNotBetting == currentAviatorRound.status # "betting"

\* The first test of the handler: is the round flying?
CashOutGuard == currentAviatorRound.status = "flying"

\* A cash-out request of userId arrives: the handler up to its first await.
CashOut(userId) ==
  /\ budget.cashOut > 0
  /\ budget' = [budget EXCEPT !.cashOut = @ - 1]
  /\ IF ~CashOutGuard
       THEN /\ response' = BadRequest("Cannot cash out now")
            /\ UNCHANGED cashOutReq
       ELSE \* await storage.getUserAviatorBet(userId,
            \*         currentAviatorRound.roundId)
            /\ response' = NoResponse
            /\ cashOutReq' = Put(cashOutReq,
                 NewCashOut(userId, currentAviatorRound.roundId))
  /\ sent' = <<>>
  /\ UNCHANGED placeBetReq
  /\ RequestFrame

\* The database executes the storage call cash-out handler c awaits.
CashOutStorage(c) ==
  /\ c \in BagToSet(cashOutReq)
  /\ ~c.ret
  /\ \/ /\ c.pc = "getUserAviatorBet"
        /\ \/ /\ UserAviatorBets(c.userId, c.roundId) = {}
              /\ cashOutReq' = Swap(cashOutReq, c, [c EXCEPT !.ret = TRUE])
           \/ \E b \in UserAviatorBets(c.userId, c.roundId) :
                cashOutReq' = Swap(cashOutReq, c,
                  [c EXCEPT !.ret = TRUE, !.bet = b,
                            !.betAmount = aviatorBets[b].betAmount,
                            !.betStatus = aviatorBets[b].status])
        /\ UNCHANGED dbVars
     \/ /\ c.pc = "updateAviatorBet"
        /\ aviatorBets' = UpdateAviatorBet(c.bet,
                            CashedOutUpdate(c.cashOutAt, c.winAmount))
        /\ cashOutReq' = Swap(cashOutReq, c, [c EXCEPT !.ret = TRUE])
        /\ UNCHANGED <<balance, transactions, payouts>>
     \/ /\ c.pc = "createTransaction"
        /\ transactions' =
             CreateTransaction(GameWinTx(c.userId, c.winAmount, c.roundId))
        /\ payouts' = [payouts EXCEPT ![c.bet].winTx = @ + 1]
        \* then: const user = await storage.getUser(userId)
        /\ cashOutReq' = Swap(cashOutReq, c, [c EXCEPT !.pc = "getUser"])
        /\ UNCHANGED <<aviatorBets, balance>>
     \/ /\ c.pc = "getUser"
        \* then: await storage.updateUserBalance(userId,
        \*         (user.balance || 0) + winAmount)
        /\ cashOutReq' = Swap(cashOutReq, c,
             [c EXCEPT !.pc = "updateUserBalance",
                       !.amount = balance[c.userId] + c.winAmount])
        /\ UNCHANGED dbVars
     \/ /\ c.pc = "updateUserBalance"
        /\ balance' = [balance EXCEPT ![c.userId] = c.amount]
        /\ payouts' = [payouts EXCEPT ![c.bet].credit = @ + 1]
        \* then: await storage.updateUserStats(userId, true, winAmount)
        /\ cashOutReq' = Swap(cashOutReq, c,
             [c EXCEPT !.pc = "updateUserStats", !.ret = TRUE])
        /\ UNCHANGED <<aviatorBets, transactions>>
  /\ sent' = <<>>
  /\ response' = NoResponse
  /\ called' = NoCall
  /\ UNCHANGED <<roundVars, placeBetReq, tick, crash, budget>>
  /\ BroadcastToClients

\* The test without the status of the row.
ActiveBetGuardAnyStatus(bet, betStatus) == bet # 0

\* The test on the row getUserAviatorBet returned.
ActiveBetGuard(bet, betStatus) == bet # 0 /\ betStatus = "active"

\* if (!bet || bet.status !== 'active') ...; winAmount; then
\* await storage.updateAviatorBet(bet.id, {cashOutAt, status, winAmount})
CashOutAfterGetBet(c) ==
  /\ c \in BagToSet(cashOutReq)
  /\ Resumes(c, "getUserAviatorBet")
  /\ IF ~ActiveBetGuard(c.bet, c.betStatus)
       THEN /\ response' = BadRequest("No active bet found")
            /\ cashOutReq' = Drop(cashOutReq, c)
       ELSE /\ response' = NoResponse
            /\ cashOutReq' = Swap(cashOutReq, c,
                 [c EXCEPT !.pc = "updateAviatorBet", !.ret = FALSE,
                           !.cashOutAt = currentAviatorRound.multiplier,
                           !.winAmount =
                              FloorOfProduct(c.betAmount,
                                             currentAviatorRound)])
  /\ sent' = <<>>
  /\ UNCHANGED <<placeBetReq, budget>>
  /\ RequestFrame

\* await storage.createTransaction({... gameRoundId: currentAviatorRound.roundId})
CashOutAfterUpdateBet(c) ==
  /\ c \in BagToSet(cashOutReq)
  /\ Resumes(c, "updateAviatorBet")
  /\ cashOutReq' = Swap(cashOutReq, c,
       [c EXCEPT !.pc = "createTransaction", !.ret = FALSE,
                 !.roundId = currentAviatorRound.roundId])
  /\ response' = NoResponse
  /\ sent' = <<>>
  /\ UNCHANGED <<placeBetReq, budget>>
  /\ RequestFrame

\* broadcast cash_out; res.json({ success: true, winAmount, multiplier })
CashOutAfterUpdateStats(c) ==
  /\ c \in BagToSet(cashOutReq)
  /\ Resumes(c, "updateUserStats")
  /\ sent' = <<CashOutMsg(c.userId, currentAviatorRound, c.winAmount)>>
  /\ response' = [status |-> 200, winAmount |-> c.winAmount,
                  multiplier |-> currentAviatorRound.multiplier]
  /\ cashOutReq' = Drop(cashOutReq, c)
  /\ UNCHANGED <<placeBetReq, budget>>
  /\ RequestFrame

\* -------------------------------- snapshots: current-game and ws join
\* GET /api/aviator/current-game
CurrentGame ==
  /\ budget.query > 0
  /\ budget' = [budget EXCEPT !.query = @ - 1]
  /\ response' = CurrentGameResponse(currentAviatorRound)
  /\ sent' = <<>>
  /\ UNCHANGED <<placeBetReq, cashOutReq>>
  /\ RequestFrame

\* The client of open socket ws sends {type: 'join'}: ws.send of the
\* game_state snapshot on that socket.
Join(ws) ==
  /\ readyState[ws] = "open"
  /\ budget.query > 0
  /\ budget' = [budget EXCEPT !.query = @ - 1]
  /\ sent' = <<GameStateMsg(currentAviatorRound)>>
  /\ delivered' = [NoDelivery EXCEPT ![ws] = sent']
  /\ response' = NoResponse
  /\ called' = NoCall
  /\ UNCHANGED <<roundVars, dbVars, tick, crash, placeBetReq, cashOutReq,
                 wsVars>>

\* ------------------------------------------- WebSocket connections
\* What no step of a connection touches.
ObserverFrame ==
  /\ sent' = <<>>
  /\ delivered' = NoDelivery
  /\ response' = NoResponse
  /\ called' = NoCall
  /\ UNCHANGED <<roundVars, dbVars, placeBetReq, cashOutReq, tick, crash,
                 budget, page>>

\* wss.on('connection'): a client connects on a new socket.
Connect(ws) ==
  /\ readyState[ws] = "none"
  /\ \A o \in Sockets : o < ws => readyState[o] # "none"
  /\ readyState' = [readyState EXCEPT ![ws] = "open"]
  /\ wssClients' = wssClients \cup {ws}
  /\ isAlive' = [isAlive EXCEPT ![ws] = TRUE]
  /\ connectedClients' = connectedClients \cup {ws}
  /\ UNCHANGED pinged
  /\ ObserverFrame

\* The transport of socket ws goes down (the peer closes or the network
\* fails): the socket is no longer OPEN, its 'close' event is still to come.
TransportCloses(ws) ==
  /\ readyState[ws] = "open"
  /\ readyState' = [readyState EXCEPT ![ws] = "closing"]
  /\ pinged' = [pinged EXCEPT ![ws] = FALSE]
  /\ UNCHANGED <<wssClients, connectedClients, isAlive>>
  /\ ObserverFrame

\* ws.on('close'): the server forgets the socket (wss.clients) and the
\* handler deletes it from connectedClients.
Close(ws) ==
  /\ readyState[ws] = "closing"
  /\ readyState' = [readyState EXCEPT ![ws] = "closed"]
  /\ wssClients' = wssClients \ {ws}
  /\ connectedClients' = connectedClients \ {ws}
  /\ UNCHANGED <<isAlive, pinged>>
  /\ ObserverFrame

\* ws.on('pong'): the answer to the ping in flight arrives.
Pong(ws) ==
  /\ readyState[ws] = "open"
  /\ pinged[ws]
  /\ isAlive' = [isAlive EXCEPT ![ws] = TRUE]
  /\ pinged' = [pinged EXCEPT ![ws] = FALSE]
  /\ UNCHANGED <<wssClients, connectedClients, readyState>>
  /\ ObserverFrame

\* The test with every socket taken for silent.
UnresponsiveAlways(ws) == TRUE

\* if (ws.isAlive === false)
Unresponsive(ws) == isAlive[ws] = FALSE

\* The 30 s interval fires: every socket of wss.clients that has not
\* answered is terminated and deleted, every other one is marked and pinged
\* (a ping on a socket that is not OPEN is not sent).
Heartbeat ==
  LET dead == {ws \in wssClients : Unresponsive(ws)}
      kept == wssClients \ dead
  IN /\ readyState' = [ws \in Sockets |->
                         IF ws \in dead /\ readyState[ws] = "open"
                           THEN "closing" ELSE readyState[ws]]
     /\ connectedClients' = connectedClients \ dead
     /\ isAlive' = [ws \in Sockets |->
                      IF ws \in kept THEN FALSE ELSE isAlive[ws]]
     /\ pinged' = [ws \in Sockets |->
                     IF ws \in dead THEN FALSE
                     ELSE IF ws \in kept /\ readyState[ws] = "open" THEN TRUE
                     ELSE pinged[ws]]
     /\ UNCHANGED wssClients
     /\ ObserverFrame

\* ------------------------------------------------------ specification
Rounds == 1..Budget

\* ---------------------------------------- POST /api/aviator/take-winnings
\* The methods of class DatabaseStorage, the class of `storage`.
StorageMethods ==
  {"getUser", "upsertUser", "updateUserBalance", "getUserBalance",
   "createTransaction", "getUserTransactions", "createGameRound",
   "getUserGameHistory", "updateUserStats", "createAviatorGameState",
   "updateAviatorGameState", "getCurrentAviatorGame", "createAviatorBet",
   "updateAviatorBet", "getAviatorBetsForRound", "getUserAviatorBet"}

\* The handler that credits the balance with the winnings of a cashed-out
\* bet of userId before it answers.
TakeWinningsCredits(userId) ==
  LET won == {i \in DOMAIN aviatorBets :
                /\ aviatorBets[i].userId = userId
                /\ aviatorBets[i].status = "cashed_out"
                /\ aviatorBets[i].winAmount > 0}
  IN /\ budget.query > 0
     /\ budget' = [budget EXCEPT !.query = @ - 1]
     /\ response' = [status |-> 500, message |-> "Failed to collect winnings"]
     /\ sent' = <<>>
     /\ called' = NoCall
     /\ balance' = IF won = {} THEN balance
                   ELSE [balance EXCEPT
                           ![userId] = @ + aviatorBets[Min(won)].winAmount]
     /\ UNCHANGED <<placeBetReq, cashOutReq, roundVars, aviatorBets,
                    transactions, payouts, tick, crash>>
     /\ BroadcastToClients

\* A take-winnings request of userId arrives.  The handler's first statement
\* calls storage.getUserAviatorBets(userId, 5), which DatabaseStorage does
\* not define: the call throws a TypeError before anything is awaited, and
\* the handler's catch answers 500.  The handler writes nothing.
TakeWinnings(userId) ==
  /\ budget.query > 0
  /\ budget' = [budget EXCEPT !.query = @ - 1]
  /\ "getUserAviatorBets" \notin StorageMethods
  /\ response' = [status |-> 500, message |-> "Failed to collect winnings"]
  /\ sent' = <<>>
  /\ UNCHANGED <<placeBetReq, cashOutReq>>
  /\ RequestFrame

Next ==
  \/ StartAviatorRound
  \/ \E r \in Rounds : BettingTimer(r)
  \/ \E h \in Rounds : Tick(h)
  \/ \E t \in BagToSet(tick) : TickStorage(t)
  \/ \E t \in BagToSet(tick) : TickAfterGetBets(t)
  \/ \E t \in BagToSet(tick) : TickAfterUpdateBet(t)
  \/ \E t \in BagToSet(tick) : TickAfterUpdateStats(t)
  \/ \E r \in Rounds : CrashAfterUpdateGameState(r)
  \/ \E r \in Rounds : CrashStorage(r)
  \/ \E r \in Rounds : CrashAfterGetBets(r)
  \/ \E r \in Rounds : CrashAfterUpdateStats(r)
  \/ \E u \in Users, a \in BetAmounts : \E c \in AutoCashOutsOf(u) :
       PlaceBet(u, a, c)
  \/ \E p \in BagToSet(placeBetReq) : PlaceBetStorage(p)
  \/ \E p \in BagToSet(placeBetReq) : PlaceBetAfterGetUser(p)
  \/ \E p \in BagToSet(placeBetReq) : PlaceBetAfterGetBet(p)
  \/ \E p \in BagToSet(placeBetReq) : PlaceBetAfterCreateBet(p)
  \/ \E p \in BagToSet(placeBetReq) : PlaceBetAfterUpdateBalance(p)
  \/ \E u \in Users : CashOut(u)
  \/ \E c \in BagToSet(cashOutReq) : CashOutStorage(c)
  \/ \E c \in BagToSet(cashOutReq) : CashOutAfterGetBet(c)
  \/ \E c \in BagToSet(cashOutReq) : CashOutAfterUpdateBet(c)
  \/ \E c \in BagToSet(cashOutReq) : CashOutAfterUpdateStats(c)
  \/ CurrentGame
  \/ \E ws \in Sockets : Join(ws)
  \/ \E u \in Users : TakeWinnings(u)

Spec == Init /\ [][Next]_vars

\* The draw alone: the first round is started with any value Math.random()
\* can return, and its betting timer fires.
DrawInit ==
  \E k \in 0..(RandomGrid - 1) :
    Started(k, [rounds |-> 1, placeBet |-> 0, cashOut |-> 0, query |-> 0,
                fault |-> 0])

DrawNext == \E r \in Rounds : BettingTimer(r)

DrawSpec == DrawInit /\ [][DrawNext]_vars

\* The take-winnings requests of a run of CollectSpec.
CollectCalls == 2

\* The join messages of a run of ObserverSpec.
ObserverJoins == 1

\* The draws of a run of FlightSpec are the multiples of DrawStride.
DrawStride == 25

\* The place-bet requests of a run of PlaceSpec.
PlaceCalls == 1

\* The engine alone: user u has placed one bet in the betting phase of the
\* first round (row, game_bet transaction and debit are written, the handler
\* has answered); b is what the run may still hold.
EngineStarted(b) ==
  \E k \in 0..MaxDraw, u \in Users, a \in BetAmounts :
    \E c \in AutoCashOutsOf(u) :
      /\ currentAviatorRound = NewRound(1, k)
      /\ called = NoCall
      /\ sent = <<BetPlacedMsg(u, a, c)>>
      /\ response = [status |-> 200, bet |-> 1,
                     newBalance |-> InitialBalance - a]
      /\ aviatorInterval = 0
      /\ intervals = {}
      /\ bettingTimers = {1}
      /\ cooldownTimers = 0
      /\ roundsStarted = 1
      /\ clock = 0
      /\ aviatorBets = <<[id |-> 1, userId |-> u, roundId |-> 1,
                          betAmount |-> a, autoCashOut |-> c, cashOutAt |-> 0,
                          status |-> "active", winAmount |-> 0]>>
      /\ balance = [v \in Users |->
                      IF v = u THEN InitialBalance - a ELSE InitialBalance]
      /\ transactions = SetToBag({GameBetTx(u, a, 1)})
      /\ payouts = <<[winTx |-> 0, credit |-> 0]>>
      /\ placeBetReq = EmptyBag
      /\ cashOutReq = EmptyBag
      /\ tick = EmptyBag
      /\ crash = [r \in 1..Budget |-> IdleCrash]
      /\ budget = b
      /\ ObserverConnected

EngineInit ==
  EngineStarted([rounds |-> 1, placeBet |-> 0, cashOut |-> 0, query |-> 0,
                 fault |-> 0])

\* The timers of the engine.
EngineTimers ==
  \/ StartAviatorRound
  \/ \E r \in Rounds : BettingTimer(r)
  \/ \E h \in Rounds : Tick(h)

\* The database executes a storage call of the engine.
EngineStorage ==
  \/ \E t \in BagToSet(tick) : TickStorage(t)
  \/ \E r \in Rounds : CrashStorage(r)

\* A suspended callback of the engine resumes.
EngineResumes ==
  \/ \E t \in BagToSet(tick) : TickAfterGetBets(t)
  \/ \E t \in BagToSet(tick) : TickAfterUpdateBet(t)
  \/ \E t \in BagToSet(tick) : TickAfterUpdateStats(t)
  \/ \E r \in Rounds : CrashAfterUpdateGameState(r)
  \/ \E r \in Rounds : CrashAfterGetBets(r)
  \/ \E r \in Rounds : CrashAfterUpdateStats(r)

EngineNext == EngineTimers \/ EngineStorage \/ EngineResumes

EngineSpec == EngineInit /\ [][EngineNext]_vars

\* The engine under fair scheduling: a timer that is due fires, a storage
\* call that was issued returns, a callback whose await returned resumes.
FairEngineSpec ==
  /\ EngineSpec
  /\ WF_vars(EngineTimers)
  /\ WF_vars(EngineStorage)
  /\ WF_vars(EngineResumes)

\* The storage call tick callback t awaits throws.  Nothing in the callback
\* catches: its promise rejects and the rest of the callback never runs.
\* (This is the mildest outcome; a runtime set to end the process on an
\* unhandled rejection stops the engine altogether.)
TickStorageThrows(t) ==
  /\ t \in BagToSet(tick)
  /\ ~t.ret
  /\ budget.fault > 0
  /\ budget' = [budget EXCEPT !.fault = @ - 1]
  /\ tick' = Drop(tick, t)
  /\ sent' = <<>>
  /\ response' = NoResponse
  /\ called' = NoCall
  /\ UNCHANGED <<roundVars, dbVars, placeBetReq, cashOutReq, crash>>
  /\ BroadcastToClients

\* The storage call crashAviator awaits for round r throws.  crashAviator
\* has no try/catch and its caller does not await it: the rest of the
\* function, the crashed broadcast and the 3 s timeout included, never runs.
CrashStorageThrows(r) ==
  /\ \/ crash[r].pc = "updateAviatorGameState"
     \/ crash[r].pc \in {"getAviatorBetsForRound", "updateAviatorBet"}
          /\ ~crash[r].ret
  /\ budget.fault > 0
  /\ budget' = [budget EXCEPT !.fault = @ - 1]
  /\ crash' = [crash EXCEPT ![r] = [IdleCrash EXCEPT !.pc = "rejected"]]
  /\ sent' = <<>>
  /\ response' = NoResponse
  /\ called' = NoCall
  /\ UNCHANGED <<roundVars, dbVars, placeBetReq, cashOutReq, tick>>
  /\ BroadcastToClients

\* The engine with two take-winnings requests still to come.
CollectInit ==
  EngineStarted([rounds |-> 1, placeBet |-> 0, cashOut |-> 0,
                 query |-> CollectCalls, fault |-> 0])

CollectNext == EngineNext \/ \E u \in Users : TakeWinnings(u)

CollectSpec == CollectInit /\ [][CollectNext]_vars

\* The request bodies of a run of PlaceSpec: amounts on both sides of each
\* limit, and autoCashOut absent (0), 1.00 and 1.01.
RequestAmounts == {MinBet - 1, MinBet, MaxBet + 1}
RequestAutoCashOuts == {0, StartMultiplier, StartMultiplier + Step}

\* Two rounds from the engine's start, with a place-bet request of any body.
PlaceInit ==
  \E k \in 0..MaxDraw :
    Started(k, [rounds |-> 2, placeBet |-> PlaceCalls,
                cashOut |-> 0, query |-> 0, fault |-> 0])

PlaceRequests ==
  \/ \E u \in Users, a \in RequestAmounts, c \in RequestAutoCashOuts :
       PlaceBet(u, a, c)
  \/ \E p \in BagToSet(placeBetReq) : PlaceBetStorage(p)
  \/ \E p \in BagToSet(placeBetReq) : PlaceBetAfterGetUser(p)
  \/ \E p \in BagToSet(placeBetReq) : PlaceBetAfterGetBet(p)
  \/ \E p \in BagToSet(placeBetReq) : PlaceBetAfterCreateBet(p)
  \/ \E p \in BagToSet(placeBetReq) : PlaceBetAfterUpdateBalance(p)

PlaceNext == EngineNext \/ PlaceRequests

PlaceSpec == PlaceInit /\ [][PlaceNext]_vars

\* The engine with observers that come and go, one of them joining.
ObserverInit ==
  EngineStarted([rounds |-> 1, placeBet |-> 0, cashOut |-> 0,
                 query |-> ObserverJoins, fault |-> 0])

ObserverEvents ==
  \/ \E ws \in Sockets : Connect(ws)
  \/ \E ws \in Sockets : TransportCloses(ws)
  \/ \E ws \in Sockets : Close(ws)
  \/ \E ws \in Sockets : Pong(ws)
  \/ \E ws \in Sockets : Join(ws)
  \/ Heartbeat

ObserverNext == EngineNext \/ ObserverEvents

ObserverSpec == ObserverInit /\ [][ObserverNext]_vars

\* ------------------------------------------ the AviatorGame page
\* The readyState the browser shows for socket ws: CONNECTING until the
\* server has accepted the connection.
ClientReadyState(ws) ==
  IF readyState[ws] = "none" THEN "connecting" ELSE readyState[ws]

\* sendMessage: if (ws.current && ws.current.readyState === WebSocket.OPEN)
\* ws.current.send(...).  Is the message written to the connection?
SendMessage(current) == current # 0 /\ ClientReadyState(current) = "open"

\* The page mounts and its effects run in the order of the hooks: the
\* effect of useWebSocket sets ws.current = new WebSocket(url), a new socket
\* ws; then the effect of AviatorGame calls sendMessage({type: 'join'}).
\* sendMessage is stable, so the join effect does not run again.
Mount(ws) ==
  /\ page.socket = 0
  /\ readyState[ws] = "none"
  /\ \A o \in Sockets : o < ws => readyState[o] # "none"
  /\ page' = [socket |-> ws, joined |-> SendMessage(ws)]
  /\ sent' = <<>>
  /\ delivered' = NoDelivery
  /\ response' = NoResponse
  /\ called' = NoCall
  /\ UNCHANGED <<roundVars, dbVars, placeBetReq, cashOutReq, tick, crash,
                 budget, wssClients, connectedClients, readyState, isAlive,
                 pinged>>

\* The connection of the page's socket is accepted: onopen, which the page
\* does not set, and wss.on('connection') at the server.
PageOpens == page.socket # 0 /\ Connect(page.socket)

\* A join message arrives at the server on socket ws: one the page wrote to
\* its connection, or one of another client.
PageJoin(ws) == (ws = page.socket => page.joined) /\ Join(ws)

\* The engine with an observer that may join, and a page that mounts.
PageInit ==
  EngineStarted([rounds |-> 1, placeBet |-> 0, cashOut |-> 0,
                 query |-> ObserverJoins, fault |-> 0])

PageEvents ==
  \/ \E ws \in Sockets : Mount(ws)
  \/ PageOpens
  \/ \E ws \in Sockets : PageJoin(ws)

PageNext == EngineNext \/ PageEvents

\* Scheduling is fair as in FairEngineSpec, the page mounts, a connection
\* that was requested is accepted, and a message that was sent arrives.
PageSpec ==
  /\ PageInit /\ [][PageNext]_vars
  /\ WF_vars(EngineTimers)
  /\ WF_vars(EngineStorage)
  /\ WF_vars(EngineResumes)
  /\ WF_vars(\E ws \in Sockets : Mount(ws))
  /\ WF_vars(PageOpens)
  /\ WF_vars(\E ws \in Sockets : PageJoin(ws))

\* One round without bets, for crash points over the whole range.
FlightDraws == {k \in 0..(RandomGrid - 1) : k % DrawStride = 0}

FlightInit ==
  \E k \in FlightDraws :
    Started(k, [rounds |-> 1, placeBet |-> 0, cashOut |-> 0, query |-> 0,
                fault |-> 0])

FlightNext ==
  \/ \E r \in Rounds : BettingTimer(r)
  \/ \E h \in Rounds : Tick(h)
  \/ \E t \in BagToSet(tick) : TickStorage(t)
  \/ \E t \in BagToSet(tick) : TickAfterGetBets(t)
  \/ \E r \in Rounds : CrashAfterUpdateGameState(r)
  \/ \E r \in Rounds : CrashStorage(r)
  \/ \E r \in Rounds : CrashAfterGetBets(r)

FlightSpec == FlightInit /\ [][FlightNext]_vars

\* The engine with a bet of each user placed in the betting phase of the
\* first round, both with the same autoCashOut of 1.01 or 1.02.
ScanInit ==
  \E k \in 0..MaxDraw, a \in BetAmounts :
    \E c \in {[u \in Users |-> x] :
                x \in {StartMultiplier + Step, StartMultiplier + 2 * Step}} :
      /\ currentAviatorRound = NewRound(1, k)
      /\ called = NoCall
      /\ sent = <<BetPlacedMsg("u2", a, c["u2"])>>
      /\ response = [status |-> 200, bet |-> 2,
                     newBalance |-> InitialBalance - a]
      /\ aviatorInterval = 0
      /\ intervals = {}
      /\ bettingTimers = {1}
      /\ cooldownTimers = 0
      /\ roundsStarted = 1
      /\ clock = 0
      /\ aviatorBets =
           <<[id |-> 1, userId |-> "u1", roundId |-> 1, betAmount |-> a,
              autoCashOut |-> c["u1"], cashOutAt |-> 0, status |-> "active",
              winAmount |-> 0],
             [id |-> 2, userId |-> "u2", roundId |-> 1, betAmount |-> a,
              autoCashOut |-> c["u2"], cashOutAt |-> 0, status |-> "active",
              winAmount |-> 0]>>
      /\ balance = [v \in Users |-> InitialBalance - a]
      /\ transactions =
           SetToBag({GameBetTx("u1", a, 1), GameBetTx("u2", a, 1)})
      /\ payouts = <<[winTx |-> 0, credit |-> 0], [winTx |-> 0, credit |-> 0]>>
      /\ placeBetReq = EmptyBag
      /\ cashOutReq = EmptyBag
      /\ tick = EmptyBag
      /\ crash = [r \in 1..Budget |-> IdleCrash]
      /\ budget = [rounds |-> 1, placeBet |-> 0, cashOut |-> 0, query |-> 0,
                   fault |-> 0]
      /\ ObserverConnected

ScanSpec == ScanInit /\ [][EngineNext]_vars

\* The engine with one bet placed and one more place-bet request: the user
\* who staked in the first round can stake again in the second.
StakeInit ==
  EngineStarted([rounds |-> 1, placeBet |-> 1, cashOut |-> 0, query |-> 0,
                 fault |-> 0])

StakeRequests ==
  \/ \E u \in Users, a \in BetAmounts : \E c \in AutoCashOutsOf(u) :
       PlaceBet(u, a, c)
  \/ \E p \in BagToSet(placeBetReq) : PlaceBetStorage(p)
  \/ \E p \in BagToSet(placeBetReq) : PlaceBetAfterGetUser(p)
  \/ \E p \in BagToSet(placeBetReq) : PlaceBetAfterGetBet(p)
  \/ \E p \in BagToSet(placeBetReq) : PlaceBetAfterCreateBet(p)
  \/ \E p \in BagToSet(placeBetReq) : PlaceBetAfterUpdateBalance(p)

StakeNext == EngineNext \/ StakeRequests

StakeSpec == StakeInit /\ [][StakeNext]_vars

\* A storage call of the engine throws.
EngineFaults ==
  \/ \E t \in BagToSet(tick) : TickStorageThrows(t)
  \/ \E r \in Rounds : CrashStorageThrows(r)

\* The engine with a storage that may fail once.
FaultInit ==
  EngineStarted([rounds |-> 1, placeBet |-> 0, cashOut |-> 0, query |-> 0,
                 fault |-> 1])

FaultNext == EngineNext \/ EngineFaults

\* Scheduling is fair as in FairEngineSpec; nothing forces storage to fail.
FaultSpec ==
  /\ FaultInit /\ [][FaultNext]_vars
  /\ WF_vars(EngineTimers)
  /\ WF_vars(EngineStorage)
  /\ WF_vars(EngineResumes)

\* ---------------------------------------------------------- properties
\* Round r has crashed: it is the current round in status crashed, or a
\* later round has replaced it.
RoundCrashed(r) ==
  \/ r < currentAviatorRound.roundId
  \/ r = currentAviatorRound.roundId /\ currentAviatorRound.status = "crashed"

\* Round r is the current round, in the given status.
RoundIs(r, status) ==
  r = currentAviatorRound.roundId /\ currentAviatorRound.status = status

\* C1: no double payout.  However manual cash-outs, tick scans and the crash
\* sweep interleave, the winAmount of a bet is credited to the balance at
\* most once and at most one game_win transaction is recorded for it.
NoDoublePayout ==
  \A b \in DOMAIN payouts : payouts[b].credit <= 1 /\ payouts[b].winTx <= 1

\* C2: a bet's status changes only from active to cashed_out or from active
\* to crashed, and once it is cashed_out or crashed no step changes its
\* status, cashOutAt or winAmount again.
BetStatusTerminal ==
  [][\A b \in DOMAIN aviatorBets :
       /\ aviatorBets'[b].status # aviatorBets[b].status
            => /\ aviatorBets[b].status = "active"
               /\ aviatorBets'[b].status \in {"cashed_out", "crashed"}
       /\ aviatorBets[b].status \in {"cashed_out", "crashed"}
            => /\ aviatorBets'[b].status = aviatorBets[b].status
               /\ aviatorBets'[b].cashOutAt = aviatorBets[b].cashOutAt
               /\ aviatorBets'[b].winAmount = aviatorBets[b].winAmount]_vars

\* C3: once the round's status is crashed, no tick scan settles a bet of
\* that round as cashed_out and no tick scan emits auto_cash_out for it,
\* scans of earlier ticks that are still in progress included.
NoAutoCashOutAfterCrash ==
  [][\A t \in BagToSet(tick) :
       /\ (TickStorage(t) /\ Awaits(t, "updateAviatorBet"))
            => ~RoundCrashed(TickBet(t).roundId)
       /\ TickAfterUpdateStats(t) => ~RoundCrashed(TickBet(t).roundId)]_vars

\* C4: whenever a manual cash-out settles a bet as cashed_out or credits its
\* winAmount, the round of the bet is in status flying at that moment.
ManualCashOutWhileFlying ==
  [][\A c \in BagToSet(cashOutReq) :
       (CashOutStorage(c) /\ c.pc \in {"updateAviatorBet", "updateUserBalance"})
         => RoundIs(aviatorBets[c.bet].roundId, "flying")]_vars

\* C5: for every user and round at most one bet record exists, after any
\* interleaving of place-bet requests.
OneBetPerUserAndRound ==
  \A i, j \in DOMAIN aviatorBets :
    (aviatorBets[i].userId = aviatorBets[j].userId
       /\ aviatorBets[i].roundId = aviatorBets[j].roundId) => i = j

\* C6: a bet record for round r is created only while r is the current
\* round in status betting.
BetCreatedWhileBetting ==
  [][\A p \in BagToSet(placeBetReq) :
       (PlaceBetStorage(p) /\ Awaits(p, "createAviatorBet"))
         => RoundIs(p.roundId, "betting")]_vars

\* The crash points a round of this model can draw.
CrashPoints == {CrashPointOf(k) : k \in 0..MaxDraw}

\* Message m as it is built from round instead of the current round.
BuiltFrom(m, round) ==
  CASE m.type = "round_started" -> RoundStartedMsg(round.roundId)
    [] m.type = "flying_started" -> FlyingStartedMsg(round)
    [] m.type = "multiplier_update" -> MultiplierUpdateMsg(round)
    [] m.type = "game_state" -> GameStateMsg(round)
    [] m.type = "cash_out" -> CashOutMsg(m.userId, round, m.winAmount)
    [] m.type = "auto_cash_out" -> AutoCashOutMsg(m.userId, round, m.winAmount)
    [] OTHER -> m

\* HTTP response r as it is built from round instead of the current round.
ResponseBuiltFrom(r, round) ==
  IF "gameStatus" \in DOMAIN r THEN CurrentGameResponse(round)
  ELSE IF "multiplier" \in DOMAIN r
         THEN [r EXCEPT !.multiplier = round.multiplier]
         ELSE r

\* C7: crashPoint secrecy towards clients.  No HTTP response carries a
\* crashPoint; a WebSocket message that carries one is the crashed event of
\* the current round, which is then in status crashed; and while the current
\* round has not crashed every message and response is the same whatever
\* crash point the round has drawn (the step-wise form of: two runs that
\* differ only in the crash point show clients the same up to the crash).
CrashPointSecret ==
  /\ "crashPoint" \notin DOMAIN response
  /\ \A i \in DOMAIN sent :
       "crashPoint" \in DOMAIN sent[i]
         => /\ sent[i].type = "crashed"
            /\ currentAviatorRound.status = "crashed"
            /\ sent[i].crashPoint = currentAviatorRound.crashPoint
  /\ currentAviatorRound.status # "crashed"
       => \A cp \in CrashPoints :
            LET other == [currentAviatorRound EXCEPT !.crashPoint = cp]
            IN /\ \A i \in DOMAIN sent : sent[i] = BuiltFrom(sent[i], other)
               /\ response = ResponseBuiltFrom(response, other)

\* A client joins a flying round and is sent the game_state snapshot.
SnapshotWhileFlying ==
  /\ currentAviatorRound.status = "flying"
  /\ \E i \in DOMAIN sent : sent[i].type = "game_state"

\* C8: no collaborator, the storage included, and no event is handed a
\* round's crashPoint before the round has crashed.
CrashPointUnobserved ==
  ("crashPoint" \in DOMAIN called \/ \E i \in DOMAIN sent :
                                       "crashPoint" \in DOMAIN sent[i])
    => currentAviatorRound.status = "crashed"

\* C9 as stated: the crash point of the round, rounded to 2 decimals, is
\* strictly greater than 1.01 and at most 10.00.
CrashPointAboveBase ==
  /\ currentAviatorRound.crashPoint > CrashBase
  /\ currentAviatorRound.crashPoint <= CrashBase + CrashSpan

\* C9 as amended: the crash point of the round, rounded to 2 decimals, is at
\* least 1.01 and at most 10.00.
CrashPointInRange ==
  /\ currentAviatorRound.crashPoint >= CrashBase
  /\ currentAviatorRound.crashPoint <= CrashBase + CrashSpan

\* The round drew the largest crash point, 10.00, and is flying.
LargestCrashPoint ==
  /\ currentAviatorRound.crashPoint = CrashBase + CrashSpan
  /\ currentAviatorRound.status = "flying"

\* C10: the round's status only changes betting to flying and flying to
\* crashed, and the round object is only replaced when its status is
\* crashed, by a round in status betting whose roundId no earlier round had.
PhaseOrder ==
  [][LET old == currentAviatorRound
         new == currentAviatorRound'
     IN /\ (new.roundId = old.roundId /\ new.status # old.status)
             => \/ old.status = "betting" /\ new.status = "flying"
                \/ old.status = "flying" /\ new.status = "crashed"
        /\ new.roundId # old.roundId
             => /\ old.status = "crashed"
                /\ new.status = "betting"
                /\ new.roundId > roundsStarted]_vars

\* A second round has started after the first one crashed.
SecondRoundBetting ==
  /\ currentAviatorRound.roundId = 2
  /\ currentAviatorRound.status = "betting"

\* C11: the multiplier is at least 1.00 in every state, is exactly 1.00
\* whenever the round is in betting, and never decreases within a round.
MultiplierMonotone ==
  /\ [](/\ currentAviatorRound.multiplier >= StartMultiplier
        /\ currentAviatorRound.status = "betting"
             => currentAviatorRound.multiplier = StartMultiplier)
  /\ [][currentAviatorRound'.roundId = currentAviatorRound.roundId
          => currentAviatorRound'.multiplier >= currentAviatorRound.multiplier]_vars

\* A tick has raised the multiplier of a flying round.
MultiplierRaised ==
  /\ currentAviatorRound.status = "flying"
  /\ currentAviatorRound.multiplier > StartMultiplier

\* C12: a tick scan that settles a bet with autoCashOut = m writes
\* cashOutAt = m, the multiplier of the first tick that reached m, and
\* winAmount = floor(betAmount * m), whatever ticks fire while the scan is
\* in progress.
AutoCashOutAtFirstTick ==
  [][\A t \in BagToSet(tick) :
       (TickStorage(t) /\ Awaits(t, "updateAviatorBet"))
         => /\ t.cashOutAt = TickBet(t).autoCashOut
            /\ t.winAmount =
                 WinAmount(TickBet(t).betAmount, TickBet(t).autoCashOut)]_vars

\* C16: a manual cash-out that arrives while the round is not flying is
\* answered 400 "Cannot cash out now" and has no side effect: no balance, bet
\* or transaction changes, no event is emitted and no handler is left behind.
CashOutNotFlying ==
  [][\A u \in Users :
       (CashOut(u) /\ currentAviatorRound.status # "flying")
         => /\ response' = BadRequest("Cannot cash out now")
            /\ sent' = <<>>
            /\ cashOutReq' = cashOutReq
            /\ UNCHANGED <<balance, aviatorBets, transactions>>]_vars

\* A cash-out was refused because the round had crashed.
CashOutRefusedAfterCrash ==
  /\ response = BadRequest("Cannot cash out now")
  /\ currentAviatorRound.status = "crashed"

\* User u has no bet in status active for round r.
NoActiveBet(u, r) ==
  \A b \in UserAviatorBets(u, r) : aviatorBets[b].status # "active"

\* C17: a manual cash-out by a user who has no active bet for the round when
\* the handler reads it is answered 400 "No active bet found" and changes no
\* balance, bet or transaction and emits nothing.
CashOutNoActiveBet ==
  [][\A c \in BagToSet(cashOutReq) :
       /\ (CashOutStorage(c) /\ Awaits(c, "getUserAviatorBet")
             /\ NoActiveBet(c.userId, c.roundId))
            => \A h \in BagToSet(cashOutReq') :
                 CopiesIn(h, cashOutReq') > CopiesIn(h, cashOutReq)
                   => h.bet = 0 \/ h.betStatus # "active"
       /\ (CashOutAfterGetBet(c) /\ (c.bet = 0 \/ c.betStatus # "active"))
            => /\ response' = BadRequest("No active bet found")
               /\ sent' = <<>>
               /\ cashOutReq' = Drop(cashOutReq, c)
               /\ UNCHANGED <<balance, aviatorBets, transactions>>]_vars

\* A cash-out was refused for a user whose bet had already cashed out.
CashOutRefusedAfterSettlement ==
  /\ response = BadRequest("No active bet found")
  /\ \E b \in DOMAIN aviatorBets : aviatorBets[b].status = "cashed_out"

\* C18: a successful manual cash-out at multiplier M writes cashOutAt = M
\* and winAmount = floor(betAmount * M), raises the user's balance by exactly
\* winAmount, emits one cash_out event with that M and winAmount and returns
\* the same M and winAmount.
CashOutReportsSettlement ==
  [][\A c \in BagToSet(cashOutReq) :
       /\ (CashOutStorage(c) /\ Awaits(c, "updateUserBalance"))
            => balance'[c.userId] = balance[c.userId] + c.winAmount
       /\ CashOutAfterUpdateStats(c)
            => /\ c.winAmount = WinAmount(c.betAmount, c.cashOutAt)
               /\ sent' = <<[type |-> "cash_out", userId |-> c.userId,
                             multiplier |-> c.cashOutAt,
                             winAmount |-> c.winAmount]>>
               /\ response'.multiplier = c.cashOutAt
               /\ response'.winAmount = c.winAmount]_vars

\* The stakes of the first n bet records that belong to user u.
RECURSIVE Staked(_, _)
Staked(u, n) ==
  IF n = 0 THEN 0
  ELSE Staked(u, n - 1)
         + (IF aviatorBets[n].userId = u THEN aviatorBets[n].betAmount ELSE 0)

\* C20: the stake is debited before or together with the creation of the
\* bet: as long as nothing was credited, every user's balance is the initial
\* balance less the stakes of all the user's bet records; and a place-bet by
\* a user whose balance is below betAmount is answered 400 and creates and
\* debits nothing.
StakeDebitedWithBet ==
  /\ []((\A b \in DOMAIN payouts : payouts[b].credit = 0)
          => \A u \in Users :
               balance[u] <= InitialBalance - Staked(u, Len(aviatorBets)))
  /\ [][\A p \in BagToSet(placeBetReq) :
          (PlaceBetAfterGetUser(p) /\ p.user < p.betAmount)
            => /\ response' = BadRequest("Insufficient balance")
               /\ placeBetReq' = Drop(placeBetReq, p)
               /\ UNCHANGED <<balance, aviatorBets, transactions>>]_vars

\* Bet row b was not to cash out automatically before the crash of the
\* current round: it has no autoCashOut, or one the ticks before the crash
\* tick did not reach.
AutoCashOutNotReached(b) ==
  /\ aviatorBets[b].roundId = currentAviatorRound.roundId
  /\ \/ aviatorBets[b].autoCashOut = 0
     \/ aviatorBets[b].autoCashOut >= currentAviatorRound.crashPoint

\* C13: a bet that is still active when its round crashes (no autoCashOut,
\* or one not reached before the crash tick, and no manual cash-out) ends
\* crashed with winAmount 0 and without a credit: no tick scan settles such
\* a bet, and the sweep writes it crashed, unpaid.
ActiveBetCrashesUnpaid ==
  [][/\ \A t \in BagToSet(tick) :
          (TickStorage(t) /\ Awaits(t, "updateAviatorBet"))
            => ~(/\ aviatorBets[TickBet(t).id].status = "active"
                 /\ AutoCashOutNotReached(TickBet(t).id))
     /\ \A r \in Rounds :
          (CrashStorage(r) /\ Awaits(crash[r], "updateAviatorBet"))
            => LET b == crash[r].roundBets[crash[r].idx].id
               IN aviatorBets[b].status = "active"
                    => /\ aviatorBets'[b].status = "crashed"
                       /\ aviatorBets'[b].winAmount = 0
                       /\ payouts[b].credit = 0]_vars

\* C14: under fair scheduling the round loop goes on.  Every round in
\* betting eventually is flying, every flying round eventually is crashed,
\* and after every crash a new round with the next id is eventually in
\* betting (as long as the run may start another round).
RoundLoopContinues ==
  /\ (currentAviatorRound.status = "betting")
       ~> (currentAviatorRound.status = "flying")
  /\ (currentAviatorRound.status = "flying")
       ~> (currentAviatorRound.status = "crashed")
  /\ \A r \in Rounds :
       (/\ currentAviatorRound.roundId = r
        /\ currentAviatorRound.status = "crashed"
        /\ budget.rounds > 0)
         ~> (/\ currentAviatorRound.roundId = r + 1
             /\ currentAviatorRound.status = "betting")

\* The loop has gone round once: the second round has crashed.
SecondRoundCrashed ==
  /\ currentAviatorRound.roundId = 2
  /\ currentAviatorRound.status = "crashed"

\* C15: a failure of one storage call does not abort the round loop.  A
\* tick callback that ends has gone through its whole scan (it broadcasts
\* multiplier_update), and a crashAviator call that ends has emitted crashed
\* and has scheduled the next round.
ErrorIsolated ==
  [][/\ BagCardinality(tick') < BagCardinality(tick)
          => \E i \in DOMAIN sent' : sent'[i].type = "multiplier_update"
     /\ \A r \in Rounds :
          (crash[r].pc \notin {"idle", "done", "rejected"}
             /\ crash'[r].pc \in {"done", "rejected"})
            => /\ \E i \in DOMAIN sent' : sent'[i].type = "crashed"
               /\ cooldownTimers' = cooldownTimers + 1]_vars

\* The cashed-out bets of userId with winnings.
Collectable(userId) ==
  {i \in DOMAIN aviatorBets :
     /\ aviatorBets[i].userId = userId
     /\ aviatorBets[i].status = "cashed_out"
     /\ aviatorBets[i].winAmount > 0}

\* C19: takeWinnings collects a cashed-out bet's winnings exactly once.  The
\* first request of a user with a cashed-out bet succeeds, and the request
\* that follows a success for the same bet fails with "No winnings to
\* collect".
TakeWinningsOnce ==
  [][\A u \in Users :
       (TakeWinnings(u) /\ Collectable(u) # {})
         => /\ budget.query = CollectCalls => response'.status = 200
            /\ response.status = 200 /\ budget.query < CollectCalls
                 => response' = BadRequest("No winnings to collect")]_vars

\* C21: a place-bet request while the round is not betting is refused with
\* "No active betting round", and one in the betting phase with an amount
\* outside [10, 1000] is refused with "Invalid bet amount"; in both cases
\* no bet row is created, no balance changes, no transaction is written,
\* no bet_placed is broadcast and the handler goes no further.
InvalidBetRefused ==
  [][\A u \in Users, a \in RequestAmounts, c \in RequestAutoCashOuts :
       (PlaceBet(u, a, c) /\ (~PlaceBetGuard \/ a < MinBet \/ a > MaxBet))
         => /\ response' = BadRequest(IF currentAviatorRound.status # "betting"
                                        THEN "No active betting round"
                                        ELSE "Invalid bet amount")
            /\ UNCHANGED <<aviatorBets, balance, transactions, placeBetReq>>
            /\ \A i \in DOMAIN sent' : sent'[i].type # "bet_placed"]_vars

\* An amount outside the limits was refused in the betting phase of the
\* second round.
InvalidAmountRefused ==
  /\ response = BadRequest("Invalid bet amount")
  /\ currentAviatorRound.status = "betting"
  /\ currentAviatorRound.roundId = 2

\* C22: every stored bet's autoCashOut is absent or above 1.00.
AutoCashOutAboveOne ==
  \A i \in DOMAIN aviatorBets :
    aviatorBets[i].autoCashOut = 0
      \/ aviatorBets[i].autoCashOut > StartMultiplier

\* C23: no bet stays active once its round has crashed and the crash sweep
\* of that round has finished, whenever its place-bet request ran.
SweptBetsTerminal ==
  \A i \in DOMAIN aviatorBets :
    crash[aviatorBets[i].roundId].pc = "done"
      => aviatorBets[i].status \in {"cashed_out", "crashed"}

\* The step published something: it sent messages other than a snapshot.
Published == sent' # <<>> /\ sent'[1].type # "game_state"

\* C24: a published event goes to exactly the sockets that are in the
\* connected set and open when it is published; a socket that is no longer
\* open never opens again and receives nothing more; a socket whose close
\* event was handled, or that the heartbeat terminated, is out of the
\* connected set.
PublishToOpenObservers ==
  /\ [](\A s \in Sockets : readyState[s] = "closed" => s \notin connectedClients)
  /\ [][/\ Published
            => \A s \in Sockets :
                 delivered'[s] = IF s \in connectedClients /\ readyState[s] = "open"
                                   THEN sent' ELSE <<>>
        /\ \A s \in Sockets :
             readyState[s] \in {"closing", "closed"}
               => /\ readyState'[s] \in {"closing", "closed"}
                  /\ delivered'[s] = <<>>
                  /\ s \notin connectedClients => s \notin connectedClients'
        /\ \A s \in wssClients :
             (Heartbeat /\ isAlive[s] = FALSE)
               => /\ readyState'[s] # "open"
                  /\ s \notin connectedClients']_vars

\* A multiplier update reached an open observer and skipped one whose
\* transport is down and whose close event is still to come.
ClosedObserverSkipped ==
  \E s, o \in Sockets :
    /\ delivered[s] # <<>>
    /\ delivered[s][1].type = "multiplier_update"
    /\ o \in connectedClients
    /\ readyState[o] = "closing"
    /\ delivered[o] = <<>>

\* C25: a join is answered at once, on the joining socket only, with one
\* game_state snapshot that has the current round's roundId, status,
\* multiplier and startTime and no crashPoint; a current round exists in
\* every state.
JoinSnapshot ==
  /\ [](currentAviatorRound.status \in {"betting", "flying", "crashed"})
  /\ [][\A ws \in Sockets :
          Join(ws)
            => /\ Len(delivered'[ws]) = 1
               /\ DOMAIN delivered'[ws][1] =
                    {"type", "roundId", "status", "multiplier", "startTime"}
               /\ delivered'[ws][1].type = "game_state"
               /\ delivered'[ws][1].roundId = currentAviatorRound.roundId
               /\ delivered'[ws][1].status = currentAviatorRound.status
               /\ delivered'[ws][1].multiplier = currentAviatorRound.multiplier
               /\ delivered'[ws][1].startTime = currentAviatorRound.startTime
               /\ \A o \in Sockets \ {ws} : delivered'[o] = <<>>]_vars

\* The second socket got its snapshot of a crashed round whose multiplier
\* had been raised.
JoinedAfterCrash ==
  /\ delivered[2] # <<>>
  /\ delivered[2][1].type = "game_state"
  /\ delivered[2][1].status = "crashed"
  /\ delivered[2][1].multiplier > StartMultiplier
  /\ delivered[1] = <<>>

\* The multiplier updates among messages q, in order.
MultiplierUpdates(q) ==
  SelectSeq(q, LAMBDA m : m.type = "multiplier_update")

\* C26: two observers that are connected and open get the same multiplier
\* updates, step by step (so the same sequence from any point on), and the
\* only message with a crashPoint that reaches an observer is the crashed
\* event.
ObserversSeeSameUpdates ==
  [][/\ \A s, o \in Sockets :
          ({s, o} \subseteq connectedClients
             /\ readyState[s] = "open" /\ readyState[o] = "open")
            => MultiplierUpdates(delivered'[s]) = MultiplierUpdates(delivered'[o])
     /\ \A s \in Sockets : \A i \in DOMAIN delivered'[s] :
          "crashPoint" \in DOMAIN delivered'[s][i]
            => /\ delivered'[s][i].type = "crashed"
               /\ currentAviatorRound'.status = "crashed"]_vars

\* Both sockets received the same multiplier update of a round that was
\* flying.
BothObserversUpdated ==
  /\ MultiplierUpdates(delivered[1]) # <<>>
  /\ delivered[1] = delivered[2]

\* C27: for an open socket, isAlive is false exactly while the ping of the
\* last heartbeat is unanswered.  A heartbeat terminates every tracked
\* socket in that condition and takes it out of the connected set; it
\* leaves every other tracked socket as it is, in or out of the connected
\* set, and pings it anew.  A pong makes the socket alive again.
HeartbeatPrunes ==
  /\ [](\A s \in wssClients :
          readyState[s] = "open" => (pinged[s] <=> isAlive[s] = FALSE))
  /\ [][/\ Heartbeat
            => \A s \in wssClients :
                 IF isAlive[s] = FALSE
                   THEN /\ readyState'[s] # "open"
                        /\ s \notin connectedClients'
                   ELSE /\ readyState'[s] = readyState[s]
                        /\ s \in connectedClients' <=> s \in connectedClients
                        /\ readyState[s] = "open" => pinged'[s]
        /\ \A s \in Sockets : Pong(s) => isAlive'[s] /\ ~pinged'[s]]_vars

\* The heartbeat has terminated an open socket that was silent, while the
\* other socket, which answered, is still open and connected.
SilentObserverPruned ==
  \E s, o \in Sockets :
    /\ readyState[s] = "closing"
    /\ s \in wssClients
    /\ s \notin connectedClients
    /\ readyState[o] = "open"
    /\ o \in connectedClients
    /\ isAlive[o] = FALSE /\ pinged[o]

\* C28: every tick of a flying round adds 0.01 to the multiplier, the round
\* crashes at the first tick whose multiplier is at least crashPoint, so
\* that the frozen multiplier m has crashPoint <= m < crashPoint + 0.01;
\* the crashed event carries m, and the multiplier of a crashed round does
\* not change.
CrashFreezesMultiplier ==
  /\ [](currentAviatorRound.status = "crashed"
          => /\ currentAviatorRound.crashPoint <= currentAviatorRound.multiplier
             /\ currentAviatorRound.multiplier
                  < currentAviatorRound.crashPoint + Step)
  /\ [](\A i \in DOMAIN sent :
          sent[i].type = "crashed"
            => sent[i].multiplier = currentAviatorRound.multiplier)
  /\ [][/\ \A h \in Rounds :
             (Tick(h) /\ currentAviatorRound.status = "flying")
               => currentAviatorRound'.multiplier
                    = currentAviatorRound.multiplier + Step
        /\ (currentAviatorRound.status = "crashed"
              /\ currentAviatorRound'.roundId = currentAviatorRound.roundId)
             => currentAviatorRound'.multiplier
                  = currentAviatorRound.multiplier]_vars

\* C29: a timer callback scheduled during round r does nothing when the
\* current round is another one.  The betting timer of r leaves the round
\* alone and emits nothing, and a tick callback of r that resumes from its
\* awaited getAviatorBetsForRound ends without settling a bet and without
\* emitting an event.
StaleCallbackSilent ==
  [][/\ \A r \in Rounds :
          (BettingTimer(r) /\ currentAviatorRound.roundId # r)
            => sent' = <<>> /\ UNCHANGED currentAviatorRound
     /\ \A t \in BagToSet(tick) :
          (TickAfterGetBets(t) /\ currentAviatorRound.roundId # t.roundId)
            => sent' = <<>> /\ tick' = Drop(tick, t)]_vars

\* C30: the betting timer of round r starts the flight only if r is the
\* current round; r is then in betting, becomes flying with a start time,
\* and flying_started is emitted for r, by this step only and once (the
\* timer of r is pending before the step and never again after it).
BeginFlyingOnce ==
  /\ [](\A r \in bettingTimers : r <= roundsStarted)
  /\ [][/\ \A r \in Rounds :
             BettingTimer(r)
               => IF currentAviatorRound.roundId = r
                    THEN /\ currentAviatorRound.status = "betting"
                         /\ currentAviatorRound'.status = "flying"
                         /\ currentAviatorRound'.roundId = r
                         /\ currentAviatorRound'.startTime = clock'
                         /\ clock' > clock
                         /\ sent' = <<[type |-> "flying_started", roundId |-> r,
                                      startTime |-> clock']>>
                    ELSE /\ UNCHANGED currentAviatorRound
                         /\ sent' = <<>>
        /\ \A r \in Rounds :
             (\E i \in DOMAIN sent' : sent'[i].type = "flying_started"
                                        /\ sent'[i].roundId = r)
               => r \in bettingTimers /\ r \notin bettingTimers'
        /\ \A r \in Rounds :
             (r <= roundsStarted /\ r \notin bettingTimers)
               => r \notin bettingTimers'
        /\ (currentAviatorRound.status # "flying"
              /\ currentAviatorRound'.status = "flying")
             => BettingTimer(currentAviatorRound.roundId)]_vars

\* The betting timer of the second round has just started its flight.
SecondRoundFlying ==
  /\ currentAviatorRound.roundId = 2
  /\ currentAviatorRound.status = "flying"
  /\ sent # <<>>
  /\ sent[1].type = "flying_started"
  /\ sent[1].roundId = 2

\* C31: the bets one scan settles get the same cashOutAt.  When a scan
\* writes the settlement of a row, every earlier row of its result set that
\* was active with an autoCashOut when the scan read it and is cashed out
\* now (by this scan: no other settles meanwhile) has the cashOutAt being
\* written.
SameTickSameCashOutAt ==
  [][\A t \in BagToSet(tick) :
       (TickStorage(t) /\ Awaits(t, "updateAviatorBet"))
         => \A i \in 1..(t.idx - 1) :
              (t.roundBets[i].status = "active"
                 /\ t.roundBets[i].autoCashOut # 0
                 /\ aviatorBets[t.roundBets[i].id].status = "cashed_out")
                => aviatorBets[t.roundBets[i].id].cashOutAt = t.cashOutAt]_vars

\* C32: startTime is absent (0) exactly while the round is in betting; it
\* changes only when a new round starts without it or when the current
\* round goes from betting to flying, and is kept to the end of the round.
StartTimeWithFlight ==
  /\ [](currentAviatorRound.status = "betting"
          <=> currentAviatorRound.startTime = 0)
  /\ [][currentAviatorRound'.startTime # currentAviatorRound.startTime
          => \/ /\ currentAviatorRound'.roundId # currentAviatorRound.roundId
                /\ currentAviatorRound'.status = "betting"
                /\ currentAviatorRound'.startTime = 0
             \/ /\ currentAviatorRound'.roundId = currentAviatorRound.roundId
                /\ currentAviatorRound.status = "betting"
                /\ currentAviatorRound'.status = "flying"]_vars

SecondRoundKeepsStartTime ==
  /\ currentAviatorRound.roundId = 2
  /\ currentAviatorRound.status = "crashed"
  /\ currentAviatorRound.startTime > 1

\* The winnings of the first n bet records that belong to user u and are
\* cashed out.
RECURSIVE Won(_, _)
Won(u, n) ==
  IF n = 0 THEN 0
  ELSE Won(u, n - 1)
         + (IF aviatorBets[n].userId = u /\ aviatorBets[n].status = "cashed_out"
              THEN aviatorBets[n].winAmount ELSE 0)

\* C33: when every place-bet, cash-out and tick handler has run to
\* completion, each user's balance is the initial balance less the stakes
\* of the user's bet records plus the winnings of the user's cashed-out
\* bets.
LedgerConserved ==
  (placeBetReq = EmptyBag /\ cashOutReq = EmptyBag /\ tick = EmptyBag)
    => \A u \in Users :
         balance[u] = InitialBalance - Staked(u, Len(aviatorBets))
                        + Won(u, Len(aviatorBets))

\* C34: a cash_out or auto_cash_out event, and the cash-out response,
\* carries the cashOutAt recorded on the bet row it reports, and its
\* winAmount is the floor of that row's betAmount times the multiplier it
\* carries.
EventMatchesSettledBet ==
  [][/\ \A c \in BagToSet(cashOutReq) :
          CashOutAfterUpdateStats(c)
            => /\ \A i \in DOMAIN sent' :
                    sent'[i].type = "cash_out"
                      => /\ sent'[i].multiplier = aviatorBets[c.bet].cashOutAt
                         /\ sent'[i].winAmount
                              = WinAmount(aviatorBets[c.bet].betAmount,
                                          sent'[i].multiplier)
               /\ response'.multiplier = aviatorBets[c.bet].cashOutAt
     /\ \A t \in BagToSet(tick) :
          TickAfterUpdateStats(t)
            => \A i \in DOMAIN sent' :
                 sent'[i].type = "auto_cash_out"
                   => /\ sent'[i].multiplier
                           = aviatorBets[TickBet(t).id].cashOutAt
                      /\ sent'[i].winAmount
                           = WinAmount(TickBet(t).betAmount,
                                       sent'[i].multiplier)]_vars

\* C35: events are emitted in the order of the round's lifecycle.
\* flying_started is emitted on leaving betting, crashed when the current
\* round is crashed, and a multiplier_update, cash_out or auto_cash_out is
\* emitted neither during a betting phase nor after the crashed event of
\* the current round (the sweep of the round is done).
EventsInLifecycleOrder ==
  [][\A i \in DOMAIN sent' :
       /\ sent'[i].type = "flying_started"
            => /\ currentAviatorRound.status = "betting"
               /\ currentAviatorRound'.status = "flying"
       /\ sent'[i].type = "crashed"
            => currentAviatorRound.status = "crashed"
       /\ sent'[i].type \in {"multiplier_update", "cash_out", "auto_cash_out"}
            => /\ currentAviatorRound.status # "betting"
               /\ crash[currentAviatorRound.roundId].pc # "done"]_vars

OneTickerWhileFlying ==
  /\ [](/\ Cardinality(intervals) <= 1
        /\ intervals # {}
             => /\ currentAviatorRound.status = "flying"
                /\ intervals = {aviatorInterval}
                /\ aviatorInterval = currentAviatorRound.roundId)
  /\ [][/\ intervals' \ intervals # {}
             => /\ currentAviatorRound.status = "betting"
                /\ currentAviatorRound'.status = "flying"
        /\ (currentAviatorRound.status = "flying"
              /\ currentAviatorRound'.status = "crashed")
             => intervals' = {} /\ aviatorInterval' = 0
        /\ (currentAviatorRound'.roundId = currentAviatorRound.roundId
              /\ currentAviatorRound'.multiplier # currentAviatorRound.multiplier)
             => currentAviatorRound.status = "flying"]_vars

\* The ticker of the second round runs; the first round's was cleared.
SecondRoundTicker ==
  /\ intervals = {2}
  /\ currentAviatorRound.multiplier > StartMultiplier

TakeWinningsReadOnly ==
  [][\A u \in Users :
       TakeWinnings(u)
         => /\ UNCHANGED <<balance, aviatorBets, transactions, payouts>>
            /\ UNCHANGED <<currentAviatorRound, aviatorInterval, intervals,
                           bettingTimers, cooldownTimers, roundsStarted>>
            /\ sent' = <<>>
            /\ delivered' = NoDelivery]_vars

\* takeWinnings has answered a user who holds a cashed-out bet with
\* winnings.
TakeWinningsAnswered ==
  /\ response.status = 500
  /\ \E u \in Users : Collectable(u) # {}

\* C40: the join of the page reaches the server.  If the page mounts and
\* its socket opens, then at some time the game_state snapshot is sent to
\* the page on that socket.
JoinReachesServer ==
  <>(page.socket # 0 /\ readyState[page.socket] = "open")
    => <>(/\ page.socket # 0
          /\ \E i \in DOMAIN delivered[page.socket] :
               delivered[page.socket][i].type = "game_state")

=============================================================================
